---- MODULE Spec2Model ----
(***************************************************************************)
(* MailStack: the install/update commands, the configuration loader and    *)
(* the thirteen-step installation pipeline, modelled as a state machine.   *)
(*                                                                         *)
(* The host (packages, users, directories, files, keys) is part of the     *)
(* state.  External tools (apt-get, useradd, openssl, postmap, sqlite3,    *)
(* certbot, systemctl) may fail; a failure is an input of the step that    *)
(* calls the tool, chosen with \E and counted against MaxFaults.           *)
(***************************************************************************)
EXTENDS Integers, Sequences, FiniteSets, TLC

VARIABLES
    file,        \* the configuration file on disk (cfgFile)
    host,        \* the state of the machine the installer converges
    pc,          \* position of the running command: idle, install, returned
    cmd,         \* the command being run: none, install, update
    cfg,         \* the Config returned by Load for the running command
    cmdErr,      \* the error the last command returned ("" = nil)
    idx,         \* Install: number of steps that have returned nil
    started,     \* Install: names of the steps started in this run, in order
    installErr,  \* Install: the error returned, [name, inner] ("" = nil)
    failedFn,    \* name of the step function that returned the inner error
    muts,        \* host-mutating calls made by the running command
    runFaults,   \* external failures that occurred in the running command
    faults,      \* external failures injected so far (all commands)
    runs,        \* commands completed so far
    loads,       \* the Configs returned by Load so far, one per command
    dest,        \* RenderToFile: the file at outputPath
    prev,        \* RenderToFile: the file found there when the call started
    wpc,         \* RenderToFile: position of the call
    umask,       \* RenderToFile: the umask of the process
    content,     \* RenderToFile: the bytes Render returns
    input,       \* library calls: the arguments the calls are made with
    results,     \* library calls: what the calls made so far returned
    domains,     \* data store: the names in table domains
    users,       \* data store: the emails in table users
    aliases,     \* data store: the rows <<email, destination>> in table aliases
    dbErr        \* data store: the last call, its argument and its error

installVars == <<file, host, pc, cmd, cfg, cmdErr, idx, started, installErr,
                 failedFn, muts, runFaults, faults, runs, loads>>

writeVars == <<dest, prev, wpc, umask, content>>

callVars == <<input, results>>

storeVars == <<domains, users, aliases, dbErr>>

\* What the install and update commands leave alone, what a call of
\* RenderToFile, a library call and a call on the data store leave alone.
besidesInstall == <<writeVars, callVars, storeVars>>

besidesWrite == <<installVars, callVars, storeVars>>

besidesCalls == <<installVars, writeVars, storeVars>>

besidesStore == <<installVars, writeVars, callVars>>

vars == <<installVars, writeVars, callVars, storeVars>>

(***************************************************************************)
(* Bounds                                                                  *)
(***************************************************************************)
MaxRuns == 2

MaxFaults == 1

NumRandom == 2

(***************************************************************************)
(* package config                                                          *)
(***************************************************************************)

\* The empty key: the zero value of a secret field.
NoKey == <<0, 0>>

\* A secret written in the file by the administrator.
FileKey == <<32, 9>>

\* A configuration file that sets the required fields and the secret key
\* (the fields of Config the model follows; the others are not modelled).
BaseFile ==
    [ kind |-> "ok",
      domain |-> "example.com", hostname |-> "mail.example.com",
      hostnames |-> << >>,
      adminEmail |-> "admin@example.com", adminPassword |-> "pw",
      dbType |-> "sqlite", dbPath |-> "", dbDSN |-> << >>,
      tlsFlavor |-> "notls", tlsEmail |-> "", certPath |-> "", keyPath |-> "",
      webmail |-> "", svcWebmail |-> FALSE, antivirus |-> FALSE,
      dkimSelector |-> "", dataPath |-> "",
      secretKey |-> FileKey, roundcubeKey |-> NoKey,
      snuffleupagusKey |-> NoKey ]

\* generateRandomKey(length): the hex encoding of length/2 random bytes; the
\* random source yields one of NumRandom values per call.
generateRandomKey(length) == { <<length, n>> : n \in 1..NumRandom }

\* buildDSN: the connection string derived from the structured fields.
buildDSN(c) ==
    IF c.dbType = "sqlite"
    THEN IF c.dbPath # "" THEN <<"sqlite:", c.dbPath>>
         ELSE <<"sqlite:", c.dataPath, "/mailstack.db">>
    ELSE IF c.dbType = "postgresql" THEN <<"pgsql:">>
    ELSE IF c.dbType = "mysql" THEN <<"mysql:">>
    ELSE << >>

\* Faulty variant: the secret key is generated at every load, whatever the
\* file holds.
setDefaultsRegenerate(c, k1, k2, k3) ==
    LET c1 == [c EXCEPT !.dkimSelector = IF @ = "" THEN "dkim" ELSE @,
                        !.dataPath = IF @ = "" THEN "/var/lib/mailstack/data" ELSE @,
                        !.hostnames = IF Len(@) = 0 THEN <<c.hostname>> ELSE @,
                        !.webmail = IF @ = "" THEN "none" ELSE @]
        c2 == [c1 EXCEPT !.dbDSN = IF Len(@) = 0 THEN buildDSN(c1) ELSE @]
    IN  [c2 EXCEPT
            !.secretKey = k1,
            !.roundcubeKey = IF @ = NoKey /\ c2.webmail = "roundcube" THEN k2 ELSE @,
            !.snuffleupagusKey = IF @ = NoKey /\ c2.webmail # "none" THEN k3 ELSE @]

\* Faulty variant: the list of hostnames is left as the file gave it.
setDefaultsKeepHostnames(c, k1, k2, k3) ==
    LET c1 == [c EXCEPT !.dkimSelector = IF @ = "" THEN "dkim" ELSE @,
                        !.dataPath = IF @ = "" THEN "/var/lib/mailstack/data" ELSE @,
                        !.webmail = IF @ = "" THEN "none" ELSE @]
        c2 == [c1 EXCEPT !.dbDSN = IF Len(@) = 0 THEN buildDSN(c1) ELSE @]
    IN  [c2 EXCEPT
            !.secretKey = IF @ = NoKey THEN k1 ELSE @,
            !.roundcubeKey = IF @ = NoKey /\ c2.webmail = "roundcube" THEN k2 ELSE @,
            !.snuffleupagusKey = IF @ = NoKey /\ c2.webmail # "none" THEN k3 ELSE @]

\* setDefaults, for the chosen random keys k1, k2, k3 (one per secret).
setDefaults(c, k1, k2, k3) ==
    LET c1 == [c EXCEPT !.dkimSelector = IF @ = "" THEN "dkim" ELSE @,
                        !.dataPath = IF @ = "" THEN "/var/lib/mailstack/data" ELSE @,
                        !.hostnames = IF Len(@) = 0 THEN <<c.hostname>> ELSE @,
                        !.webmail = IF @ = "" THEN "none" ELSE @]
        c2 == [c1 EXCEPT !.dbDSN = IF Len(@) = 0 THEN buildDSN(c1) ELSE @]
    IN  [c2 EXCEPT
            !.secretKey = IF @ = NoKey THEN k1 ELSE @,
            !.roundcubeKey = IF @ = NoKey /\ c2.webmail = "roundcube" THEN k2 ELSE @,
            !.snuffleupagusKey = IF @ = NoKey /\ c2.webmail # "none" THEN k3 ELSE @]

\* The fields of Config that the model follows, by the name the model gives
\* them, and those among them that carry `omitempty` in their json tag.
ConfigKeys ==
    { "domain", "hostname", "hostnames", "adminEmail", "adminPassword",
      "dbType", "dbPath", "dbDSN", "tlsFlavor", "tlsEmail", "certPath",
      "keyPath", "webmail", "svcWebmail", "antivirus", "dkimSelector",
      "dataPath", "secretKey", "roundcubeKey", "snuffleupagusKey" }

OmitEmpty ==
    { "hostnames", "dbPath", "dbDSN", "tlsEmail", "certPath", "keyPath",
      "webmail", "svcWebmail", "roundcubeKey", "snuffleupagusKey" }

\* The zero value of a field.
ZeroValue(key) ==
    CASE key \in {"hostnames", "dbDSN"} -> << >>
      [] key \in {"svcWebmail", "antivirus"} -> FALSE
      [] key \in {"secretKey", "roundcubeKey", "snuffleupagusKey"} -> NoKey
      [] OTHER -> ""

\* json.MarshalIndent(c): the JSON object, a value for every key except the
\* omitempty keys whose field holds the zero value.
Marshal(c) ==
    [ key \in { k \in ConfigKeys :
                  ~(k \in OmitEmpty /\ c[k] = ZeroValue(k)) } |-> c[key] ]

\* json.Unmarshal(data, &cfg) on a zero Config: a field takes the value of
\* its key and stays zero when the object has no such key.
Unmarshal(object) ==
    [ key \in ConfigKeys \cup {"kind"} |->
        IF key = "kind" THEN "ok"
        ELSE IF key \in DOMAIN object THEN object[key]
        ELSE ZeroValue(key) ]

\* Load: the error for an unreadable or unparsable file, "" otherwise.
LoadErr(f) ==
    IF f.kind = "missing" THEN "failed to read config file"
    ELSE IF f.kind = "malformed" THEN "failed to parse config file"
    ELSE ""

\* Load: the set of Configs a successful Load can return for file f.
Load(f) ==
    { setDefaults(f, k1, k2, k3) :
        k1 \in generateRandomKey(32),
        k2 \in generateRandomKey(24),
        k3 \in generateRandomKey(32) }

validDBTypes == {"sqlite", "postgresql", "mysql"}

validTLSFlavors == {"letsencrypt", "cert", "mail-letsencrypt", "mail", "notls"}

\* strings.HasPrefix(flavor, "letsencrypt") on the flavors of the model
HasPrefixLetsencrypt(flavor) == flavor = "letsencrypt"

\* Faulty variant: the hostname is checked before the domain.
ValidateHostnameFirst(c) ==
    IF c.hostname = "" THEN "hostname is required"
    ELSE IF c.domain = "" THEN "domain is required"
    ELSE IF c.adminEmail = "" THEN "admin email is required"
    ELSE IF c.adminPassword = "" THEN "admin password is required"
    ELSE IF c.dbType = "" THEN "database type is required"
    ELSE IF c.dbType \notin validDBTypes THEN "invalid database type"
    ELSE IF c.tlsFlavor = "" THEN "TLS flavor is required"
    ELSE IF c.tlsFlavor \notin validTLSFlavors THEN "invalid TLS flavor"
    ELSE IF HasPrefixLetsencrypt(c.tlsFlavor) /\ c.tlsEmail = ""
         THEN "TLS email is required for Let's Encrypt"
    ELSE ""

\* Faulty variant: the email of a Let's Encrypt flavor is not checked.
ValidateWithoutTLSEmail(c) ==
    IF c.domain = "" THEN "domain is required"
    ELSE IF c.hostname = "" THEN "hostname is required"
    ELSE IF c.adminEmail = "" THEN "admin email is required"
    ELSE IF c.adminPassword = "" THEN "admin password is required"
    ELSE IF c.dbType = "" THEN "database type is required"
    ELSE IF c.dbType \notin validDBTypes THEN "invalid database type"
    ELSE IF c.tlsFlavor = "" THEN "TLS flavor is required"
    ELSE IF c.tlsFlavor \notin validTLSFlavors THEN "invalid TLS flavor"
    ELSE ""

\* Validate: the error message returned ("" = nil); the first failing check
\* returns.
Validate(c) ==
    IF c.domain = "" THEN "domain is required"
    ELSE IF c.hostname = "" THEN "hostname is required"
    ELSE IF c.adminEmail = "" THEN "admin email is required"
    ELSE IF c.adminPassword = "" THEN "admin password is required"
    ELSE IF c.dbType = "" THEN "database type is required"
    ELSE IF c.dbType \notin validDBTypes THEN "invalid database type"
    ELSE IF c.tlsFlavor = "" THEN "TLS flavor is required"
    ELSE IF c.tlsFlavor \notin validTLSFlavors THEN "invalid TLS flavor"
    ELSE IF HasPrefixLetsencrypt(c.tlsFlavor) /\ c.tlsEmail = ""
         THEN "TLS email is required for Let's Encrypt"
    ELSE ""

(***************************************************************************)
(* package packages                                                        *)
(***************************************************************************)

\* GetRequiredPackages(osType)
GetRequiredPackages(osType) ==
    IF osType = "debian"
    THEN << "postfix", "postfix-pcre", "dovecot-core", "dovecot-imapd",
            "dovecot-pop3d", "dovecot-lmtpd", "dovecot-managesieved",
            "dovecot-sieve", "dovecot-mysql", "dovecot-pgsql", "dovecot-sqlite",
            "rspamd", "redis-server", "nginx", "ca-certificates", "certbot",
            "openssl", "libsasl2-modules", "sasl2-bin", "python3", "python3-pip",
            "python3-setuptools", "sqlite3", "postgresql-client",
            "default-mysql-client", "python3-certbot-nginx", "curl", "gnupg",
            "supervisor", "logrotate", "net-tools", "dnsutils", "iputils-ping" >>
    ELSE << >>

\* GetOptionalPackages(osType, enableAntivirus, enableWebmail)
GetOptionalPackages(osType, enableAntivirus, enableWebmail) ==
    (IF enableAntivirus /\ osType = "debian"
     THEN << "clamav", "clamav-daemon", "clamav-freshclam" >> ELSE << >>)
    \o
    (IF enableWebmail /\ osType = "debian"
     THEN << "php8.1-fpm", "php8.1-cli", "php8.1-common", "php8.1-json",
             "php8.1-mysql", "php8.1-pgsql", "php8.1-sqlite3", "php8.1-curl",
             "php8.1-mbstring", "php8.1-xml", "php8.1-intl", "php8.1-zip",
             "php8.1-gd", "php8.1-imap", "php8.1-ldap", "php8.1-bcmath",
             "php8.1-opcache", "php8.1-dev", "gcc", "make", "composer" >>
     ELSE << >>)

\* Manager.IsInstalled(pkg)
IsInstalled(h, pkg) == pkg \in h.pkgs

Range(s) == { s[i] : i \in 1..Len(s) }

(***************************************************************************)
(* The host                                                                *)
(***************************************************************************)

\* A bare host: nothing of the mail stack is present.
BareHost ==
    [ os |-> "debian", root |-> TRUE, systemd |-> TRUE, ssWorks |-> TRUE,
      pkgs |-> {}, users |-> {"root"}, groups |-> {"root"},
      dirs |-> {}, conf |-> {}, maps |-> {}, compiled |-> {}, dhparam |-> FALSE,
      links |-> {}, db |-> {}, installs |-> << >>,
      mapOps |-> << >>, mapsBefore |-> {},
      dkimKey |-> 0, dkimPub |-> 0, dkimDns |-> << >>, keyGen |-> 0,
      certs |-> {}, acme |-> << >>, acmeOk |-> FALSE,
      certsBefore |-> {}, units |-> {}, reloads |-> << >>,
      enabled |-> {}, active |-> {}, listening |-> {}, calls |-> << >>,
      scripts |-> {} ]

\* The result of a step function: the host it leaves, the error it returns
\* ("" = nil), the host-mutating calls it made and the external failures met.
R(h, err, m) == [h |-> h, err |-> err, m |-> m]

NoFault == <<"none", 0>>

\* Sequential composition of two parts of a step: r is the result of the
\* first part and s that of the second part run on the host r leaves; s
\* counts only when r is no error.
Then(r, s) ==
    IF r.err # "" THEN r ELSE R(s.h, s.err, r.m \cup s.m)

(***************************************************************************)
(* package system                                                          *)
(***************************************************************************)

IsRoot(h) == h.root

\* ServiceExists("systemd") = IsSystemdAvailable()
\* Faulty variant: the presence of systemd is taken for granted.
SystemdAssumed(h) == TRUE

IsSystemdAvailable(h) == h.systemd

\* CreateUser: nil when the user exists; otherwise runs useradd, which fails
\* under fault <<"useradd", k>>.
CreateUser(h, username, k, f) ==
    IF username \in h.users THEN R(h, "", {})
    ELSE IF f = <<"useradd", k>> THEN R(h, "failed to create user", {"useradd"})
    ELSE R([h EXCEPT !.users = @ \cup {username}], "", {"useradd"})

\* Faulty variant: the exit code 9 of groupadd (group exists) is returned as
\* an error like any other.
CreateGroupStrict(h, groupname, f) ==
    IF groupname \in h.groups \/ f = <<"groupadd", 0>>
    THEN R(h, "failed to create group", {"groupadd"})
    ELSE R([h EXCEPT !.groups = @ \cup {groupname}], "", {"groupadd"})

\* CreateGroup: always runs groupadd; exit code 9 (group exists) is nil.
CreateGroup(h, groupname, f) ==
    IF groupname \in h.groups THEN R(h, "", {"groupadd"})
    ELSE IF f = <<"groupadd", 0>> THEN R(h, "failed to create group", {"groupadd"})
    ELSE R([h EXCEPT !.groups = @ \cup {groupname}], "", {"groupadd"})

\* The directory entries for path in a set of <<path, owner, mode>> entries.
DirAt(dirs, path) == { d \in dirs : d[1] = path }

\* Faulty variant: a directory that exists is left with the owner and the
\* mode it has.
CreateDirectoryIfAbsent(h, path, owner, mode, k, f) ==
    IF f = <<"mkdir", k>> THEN R(h, "failed to create directory", {})
    ELSE IF DirAt(h.dirs, path) # {} THEN R(h, "", {})
    ELSE IF owner # "" /\ owner \notin h.users
    THEN R([h EXCEPT !.dirs = @ \cup {<<path, "root", mode>>}],
           "failed to lookup user", {"mkdir"})
    ELSE IF f = <<"chmod", k>>
    THEN R([h EXCEPT !.dirs = @ \cup {<<path, owner, mode>>}],
           "failed to set permissions", {"mkdir", "chown"})
    ELSE R([h EXCEPT !.dirs = @ \cup {<<path, owner, mode>>}], "",
           {"mkdir", "chown", "chmod"})

\* CreateDirectory(path, owner, mode): MkdirAll, Chown (looks the owner up),
\* Chmod.  MkdirAll fails under fault <<"mkdir", k>>, Chmod under
\* <<"chmod", k>>.
CreateDirectory(h, path, owner, mode, k, f) ==
    IF f = <<"mkdir", k>> THEN R(h, "failed to create directory", {})
    ELSE
      LET made == IF DirAt(h.dirs, path) = {}
                  THEN h.dirs \cup {<<path, "root", mode>>} ELSE h.dirs
          own ==  (made \ DirAt(made, path))
                      \cup { <<path, owner, d[3]>> : d \in DirAt(made, path) }
          fin ==  (own \ DirAt(own, path)) \cup {<<path, owner, mode>>}
      IN  IF owner # "" /\ owner \notin h.users
          THEN R([h EXCEPT !.dirs = made], "failed to lookup user", {"mkdir"})
          ELSE IF f = <<"chmod", k>>
          THEN R([h EXCEPT !.dirs = own], "failed to set permissions",
                 {"mkdir", "chown"})
          ELSE R([h EXCEPT !.dirs = fin], "", {"mkdir", "chown", "chmod"})

(***************************************************************************)
(* package installer: the step functions                                   *)
(***************************************************************************)

\* osdetect.Detect + IsSupported; on success the installer keeps osInfo and
\* the package manager for h.os.
detectOS(h, c, f) ==
    IF h.os = "none" THEN R(h, "failed to detect OS", {})
    ELSE IF h.os = "unknown" THEN R(h, "unsupported operating system", {})
    ELSE R(h, "", {})

checkPrerequisites(h, c, f) ==
    IF ~IsRoot(h) THEN R(h, "installation must be run as root", {})
    ELSE IF ~IsSystemdAvailable(h) THEN R(h, "systemd is required but not found", {})
    ELSE R(h, "", {})

\* Faulty variant: the list is handed on without asking IsInstalled.
Unfiltered(h, list) == list

\* The packages of list that IsInstalled reports missing, in order.
NotInstalled(h, list) == SelectSeq(list, LAMBDA p : ~IsInstalled(h, p))

\* One call pkgMgr.Install(pkgList) of installPackages.  h.installs holds,
\* for every such call of the last execution of the step, the list handed
\* over and the packages that were installed on the host at that moment.
InstallCalled(h, pkgList) ==
    [h EXCEPT !.installs = Append(@, <<pkgList, h.pkgs>>)]

\* pkgMgr.Install(pkgList) returning nil: the packages are on the host.
InstallDone(h, pkgList) ==
    [InstallCalled(h, pkgList) EXCEPT !.pkgs = @ \cup Range(pkgList)]

\* Faulty variant: a failed installation of the optional packages is returned
\* as the error of the step.
installOptionalFatal(h, toInstallOptional, f) ==
    IF Len(toInstallOptional) = 0 THEN R(h, "", {})
    ELSE IF f = <<"pkg-optional", 0>>
    THEN R(InstallCalled(h, toInstallOptional),
           "failed to install optional packages", {"pkg-install-optional"})
    ELSE R(InstallDone(h, toInstallOptional), "", {"pkg-install-optional"})

\* The installation of the missing optional packages: a failure is printed
\* as a warning and the step goes on.
installOptional(h, toInstallOptional, f) ==
    IF Len(toInstallOptional) = 0 THEN R(h, "", {})
    ELSE IF f = <<"pkg-optional", 0>>
    THEN R(InstallCalled(h, toInstallOptional), "", {"pkg-install-optional"})
    ELSE R(InstallDone(h, toInstallOptional), "", {"pkg-install-optional"})

installPackages(h, c, f) ==
    LET h0 == [h EXCEPT !.installs = << >>]
        requiredPkgs == GetRequiredPackages(h.os)
        toInstall == NotInstalled(h0, requiredPkgs)
        optionalPkgs == GetOptionalPackages(h.os, c.antivirus, c.svcWebmail)
        h1 == IF Len(toInstall) > 0 THEN InstallDone(h0, toInstall) ELSE h0
        m1 == {"pkg-update"} \cup
              (IF Len(toInstall) > 0 THEN {"pkg-install"} ELSE {})
    IN  IF f = <<"pkg-update", 0>>
        THEN R(h0, "failed to update packages", {"pkg-update"})
        ELSE IF Len(toInstall) > 0 /\ f = <<"pkg-required", 0>>
        THEN R(InstallCalled(h0, toInstall), "failed to install packages", m1)
        ELSE LET rh2 == R(h1, "", m1)
                 h2 == rh2.h
             IN  Then(rh2, installOptional(h2, NotInstalled(h2, optionalPkgs), f))

SystemUsers == << "mailu", "postfix", "dovecot" >>

RECURSIVE createUsersFrom(_, _, _)
createUsersFrom(k, h, f) ==
    IF k > Len(SystemUsers) THEN CreateGroup(h, "mail", f)
    ELSE LET r == CreateUser(h, SystemUsers[k], k, f)
         IN  IF r.err # "" THEN r
             ELSE LET rest == createUsersFrom(k + 1, r.h, f)
                  IN  R(rest.h, rest.err, r.m \cup rest.m)

createSystemUsers(h, c, f) == createUsersFrom(1, h, f)

\* The directories createDirectories makes: path, owner, mode (octal digits).
Directories(c) ==
    << <<c.dataPath, "mailu", 750>>,
       <<"/var/lib/mailstack/mail", "mailu", 750>>,
       <<"/var/lib/mailstack/dkim", "mailu", 700>>,
       <<"/var/lib/mailstack/queue", "postfix", 750>>,
       <<"/var/lib/mailstack/filter", "mailu", 750>>,
       <<"/var/lib/mailstack/certs", "mailu", 750>>,
       <<"/etc/mailstack/overrides", "root", 755>>,
       <<"/etc/mailstack", "root", 755>>,
       <<"/var/log/mailstack", "mailu", 750>> >>

RECURSIVE createDirsFrom(_, _, _, _)
createDirsFrom(k, h, dl, f) ==
    IF k > Len(dl) THEN R(h, "", {})
    ELSE LET r == CreateDirectory(h, dl[k][1], dl[k][2], dl[k][3], k, f)
         IN  IF r.err # "" THEN r
             ELSE LET rest == createDirsFrom(k + 1, r.h, dl, f)
                  IN  R(rest.h, rest.err, r.m \cup rest.m)

createDirectories(h, c, f) == createDirsFrom(1, h, Directories(c), f)

(***************************************************************************)
(* package templates                                                       *)
(***************************************************************************)

\* getTemplateData: the rendering context, a projection of the Config.
getTemplateData(c) ==
    [ Domain |-> c.domain, Hostname |-> c.hostname,
      Hostnames |-> IF Len(c.hostnames) = 0 THEN <<c.hostname>> ELSE c.hostnames,
      DKIMSelector |-> c.dkimSelector, TLSFlavor |-> c.tlsFlavor,
      DataPath |-> c.dataPath, DBDsnw |-> c.dbDSN, Webmail |-> c.webmail,
      SecretKey |-> c.secretKey, RoundcubeKey |-> c.roundcubeKey,
      SnuffleupagusKey |-> c.snuffleupagusKey,
      Admin |-> (c.adminEmail # ""), EnableAntivirus |-> c.antivirus ]

\* Render: the bytes produced for a template are a function of the template
\* and of the rendering context.
Render(template, c) == <<template, getTemplateData(c)>>

\* RenderToFile for every template of a group (one map literal of
\* generateConfigs): the group's files hold the rendered bytes afterwards.
\* Under fault <<"render", k>> a write of group k fails.
RenderGroup(h, group, c, k, f) ==
    IF f = <<"render", k>> THEN R(h, "failed to render", {})
    ELSE R([h EXCEPT !.conf = { e \in @ : e[1] # group } \cup {Render(group, c)}],
           "", {"write"})

(***************************************************************************)
(* package installer: steps 6 to 13                                        *)
(***************************************************************************)

\* The lookup-map files Postfix needs.
EmptyMaps(c) ==
    << <<c.dataPath, "virtual_alias_maps">>, <<c.dataPath, "virtual_domains">>,
       <<c.dataPath, "virtual_mailbox_maps">>,
       <<c.dataPath, "sender_canonical_maps">>,
       <<c.dataPath, "recipient_canonical_maps">>,
       <<c.dataPath, "sender_login_maps">>,
       <<"/etc/postfix", "transport.map">>, <<"/etc/postfix", "tls_policy.map">> >>

\* One call on a map file, os.WriteFile of the empty file or postmap.
\* h.mapOps holds the calls of the last execution of generateConfigs and
\* h.mapsBefore the map files that existed when it began.
MapOp(h, op, mapFile) == [h EXCEPT !.mapOps = Append(@, <<op, mapFile>>)]

\* Faulty variant: the map file is written and compiled without looking
\* whether it exists.
createMapAlways(h, mapFile, k, f) ==
    R([MapOp(MapOp(h, "write", mapFile), "postmap", mapFile)
           EXCEPT !.maps = @ \cup {mapFile}, !.compiled = @ \cup {mapFile}],
      "", {"write", "postmap"})

\* One map file: created empty and compiled with postmap only when absent.
createMap(h, mapFile, k, f) ==
    IF mapFile \in h.maps THEN R(h, "", {})
    ELSE IF f = <<"map-write", k>> THEN R(h, "failed to create map file", {})
    ELSE LET h1 == [MapOp(h, "write", mapFile) EXCEPT !.maps = @ \cup {mapFile}]
             h2 == [MapOp(h1, "postmap", mapFile)
                        EXCEPT !.compiled = @ \cup {mapFile}]
         IN  IF f = <<"postmap", k>>
             THEN R(MapOp(h1, "postmap", mapFile), "failed to run postmap",
                    {"write"})
             ELSE R(h2, "", {"write", "postmap"})

RECURSIVE createMapsFrom(_, _, _, _)
createMapsFrom(k, h, ml, f) ==
    IF k > Len(ml) THEN R(h, "", {})
    ELSE LET rh1 == createMap(h, ml[k], k, f)
             h1 == rh1.h
         IN  Then(rh1, createMapsFrom(k + 1, h1, ml, f))

\* dhparam.pem is generated with openssl when absent.
generateDhparam(h, f) ==
    IF h.dhparam THEN R(h, "", {})
    ELSE IF f = <<"dhparam", 0>> THEN R(h, "failed to generate dhparam", {})
    ELSE R([h EXCEPT !.dhparam = TRUE], "", {"write"})

\* The webmail nginx site is linked when the link is absent.
enableWebmailSite(h, f) ==
    IF "webmail.conf" \in h.links THEN R(h, "", {})
    ELSE IF f = <<"symlink", 0>> THEN R(h, "failed to enable webmail site", {})
    ELSE R([h EXCEPT !.links = @ \cup {"webmail.conf"}], "", {"write"})

\* Faulty variant: the webmail files are generated whatever the feature flag
\* and the variant say, the roundcube ones for every variant but snappymail.
generateWebmailConfigsAlways(h, c, f) ==
    LET r1 == RenderGroup(h, "webmails", c, 5, f)
        r2 == IF c.webmail = "snappymail"
              THEN RenderGroup(r1.h, "snappymail", c, 6, f)
              ELSE RenderGroup(r1.h, "roundcube", c, 6, f)
        r3 == enableWebmailSite(r2.h, f)
    IN  Then(r1, Then(r2, r3))

generateWebmailConfigs(h, c, f) ==
    LET r1 == RenderGroup(h, "webmails", c, 5, f)
        r2 == IF c.webmail = "roundcube"
              THEN RenderGroup(r1.h, "roundcube", c, 6, f)
              ELSE IF c.webmail = "snappymail"
              THEN RenderGroup(r1.h, "snappymail", c, 6, f)
              ELSE R(r1.h, "", {})
        r3 == enableWebmailSite(r2.h, f)
    IN  IF ~(c.webmail # "none" /\ c.svcWebmail) THEN R(h, "", {})
        ELSE Then(r1, Then(r2, r3))

generateConfigs(h, c, f) ==
    LET h0 == [h EXCEPT !.mapOps = << >>, !.mapsBefore = h.maps]
        r1 == RenderGroup(h0, "postfix", c, 1, f)
        r2 == createMapsFrom(1, r1.h, EmptyMaps(c), f)
        r3 == RenderGroup(r2.h, "dovecot", c, 2, f)
        r4 == RenderGroup(r3.h, "rspamd", c, 3, f)
        r5 == generateDhparam(r4.h, f)
        r6 == RenderGroup(r5.h, "nginx", c, 4, f)
        r7 == generateWebmailConfigs(r6.h, c, f)
    IN  Then(r1, Then(r2, Then(r3, Then(r4, Then(r5, Then(r6, r7))))))

\* The SQLite file the installer initializes.
InstallerDBPath(c) == <<c.dataPath, "mailstack.db">>

\* Connect(cfg.Database): the path handed to sql.Open, the DSN without its
\* sqlite: prefix or, without a DSN, the path (<< >> = no path, an error).
ConnectPath(c) ==
    IF Len(c.dbDSN) # 0
    THEN IF c.dbDSN[1] = "sqlite:" THEN Tail(c.dbDSN) ELSE c.dbDSN
    ELSE IF c.dbPath # "" THEN <<c.dbPath>>
    ELSE << >>

\* The file a path names: a directory and a file name are the same file
\* whether joined by filepath.Join or written with the separator.
FileNamed(path) ==
    [ k \in 1..Len(path) |->
        IF path[k] = "/mailstack.db" THEN "mailstack.db" ELSE path[k] ]

initSQLiteDatabase(h, c, f) ==
    LET dbPath == InstallerDBPath(c)
        h1 == [h EXCEPT !.db = @ \cup {<<dbPath, "schema.sql">>}]
        h2 == [h1 EXCEPT !.db = @ \cup {<<dbPath, "schema">>}]
        h3 == [h2 EXCEPT !.db = @ \cup {<<dbPath, c.domain>>}]
    IN  IF f = <<"schema-write", 0>> THEN R(h, "failed to write schema file", {})
        ELSE IF f = <<"sqlite3", 0>>
        THEN R(h1, "failed to initialize SQLite database", {"write"})
        ELSE IF f = <<"db-chmod", 0>>
        THEN R(h2, "failed to set database permissions", {"write", "sqlite3"})
        ELSE IF f = <<"sqlite3-insert", 0>>
        THEN R(h2, "failed to insert default domain", {"write", "sqlite3", "chmod"})
        ELSE R(h3, "", {"write", "sqlite3", "chmod"})

initDatabase(h, c, f) ==
    LET dbType == IF c.dbType = "" THEN "sqlite" ELSE c.dbType
    IN  IF dbType = "sqlite" THEN initSQLiteDatabase(h, c, f)
        ELSE IF dbType \in {"mysql", "mariadb"}
        THEN R(h, "MySQL database initialization not yet implemented", {})
        ELSE IF dbType \in {"postgresql", "postgres"}
        THEN R(h, "PostgreSQL database initialization not yet implemented", {})
        ELSE initSQLiteDatabase(h, c, f)

\* A key file left behind by an openssl run that failed after opening it.
PartialKey == -1

\* generateDKIM: nothing is done when the private key file exists; otherwise
\* openssl writes a fresh key (keyGen numbers the keys ever generated).
\* Faulty variant: the private key file is never found.
keyNeverExists(h) == FALSE

\* os.Stat(privateKeyPath) succeeds
keyExists(h) == h.dkimKey # 0

\* The base64 lines of a public key in PEM form (the SPKI body).
Base64Body == << "MIIBIjANBgkqhkiG9w0BAQEFAAOCAQ8A", "MIIBCgKCAQEAwIDAQAB" >>

\* What `openssl rsa -pubout -outform PEM` writes, piece by piece: the
\* header line, the base64 lines and the footer line, each ended by a
\* newline.
PublicKeyPEM ==
    << "-----BEGIN PUBLIC KEY-----", "\n" >>
        \o << Base64Body[1], "\n", Base64Body[2], "\n" >>
        \o << "-----END PUBLIC KEY-----", "\n" >>

\* The DNS record generateDKIM writes: the loop that is to extract the
\* base64 lines ranges over single bytes and its result is not used; the
\* record is formatted with string(pubKeyData), the whole file.
DNSRecordOf(selector, domain, pubKeyData) ==
    << selector, "._domainkey.", domain, ". IN TXT \"", "v=DKIM1; k=rsa; p=" >>
        \o pubKeyData \o << "\"", "\n" >>

generateDKIM(h, c, f) ==
    LET new == h.keyGen + 1
        selector == IF c.dkimSelector = "" THEN "dkim" ELSE c.dkimSelector
        h1 == [h EXCEPT !.dkimKey = new, !.keyGen = new]
        h2 == [h1 EXCEPT !.dkimPub = new]
        h3 == [h2 EXCEPT
                  !.dkimDns = DNSRecordOf(selector, c.domain, PublicKeyPEM)]
    IN  IF keyExists(h) THEN R(h, "", {})
        ELSE IF f = <<"genrsa", 0>>
        THEN R(h, "failed to generate DKIM private key", {"genrsa"})
        ELSE IF f = <<"genrsa", 1>>
        THEN R([h EXCEPT !.dkimKey = PartialKey],
               "failed to generate DKIM private key", {"genrsa", "write"})
        ELSE IF f = <<"dkim-chmod", 0>>
        THEN R(h1, "failed to set permissions on DKIM private key", {"genrsa", "write"})
        ELSE IF f = <<"pubout", 0>>
        THEN R(h1, "failed to generate DKIM public key", {"genrsa", "write", "chmod"})
        ELSE IF f = <<"dns-write", 0>>
        THEN R(h2, "failed to write DNS record", {"genrsa", "write", "chmod"})
        ELSE R(h3, "", {"genrsa", "write", "chmod"})

\* "webmail." + Domain, on the domains of the configurations followed.
WebmailDomain(c) ==
    CASE c.domain = "example.com" -> "webmail.example.com"
      [] c.domain = "" -> "webmail."

\* Faulty variant: the webmail name is requested whatever the configuration.
CertDomainsAlwaysWebmail(c) == << c.hostname, WebmailDomain(c) >>

\* The domains requested from certbot.
CertDomains(c) ==
    <<c.hostname>> \o
    (IF c.webmail # "" /\ c.webmail # "none" /\ WebmailDomain(c) # c.hostname
     THEN << WebmailDomain(c) >> ELSE << >>)

\* certbot was run for the domains of c and ended with success ok; the
\* certificate directory as it was before the call is kept.
CertbotRun(h, c, ok) ==
    [h EXCEPT !.acme = CertDomains(c), !.acmeOk = ok, !.certsBefore = h.certs]

setupLetsEncrypt(h, c, f) ==
    IF "certbot" \notin h.pkgs THEN R(h, "certbot not found", {})
    ELSE IF c.tlsEmail = "" THEN R(h, "TLS email is required for Let's Encrypt", {})
    ELSE IF f = <<"certbot", 0>>
    THEN R(CertbotRun(h, c, FALSE), "certbot failed", {"certbot"})
    ELSE LET h1 == [CertbotRun(h, c, TRUE) EXCEPT
                        !.certs = @ \ {"cert.pem", "key.pem"}]
             h2 == [h1 EXCEPT !.certs = @ \cup {"cert.pem"}]
             h3 == [h2 EXCEPT !.certs = @ \cup {"key.pem"}]
             h4 == [h3 EXCEPT !.certs = @ \cup {"renewal-hook"}]
         IN  IF f = <<"symlink-cert", 0>>
             THEN R(h1, "failed to create cert symlink", {"certbot", "write"})
             ELSE IF f = <<"symlink-key", 0>>
             THEN R(h2, "failed to create key symlink", {"certbot", "write"})
             ELSE IF f = <<"hook-write", 0>>
             THEN R(h3, "failed to create renewal hook", {"certbot", "write"})
             ELSE R(h4, "", {"certbot", "write"})

setupCustomCerts(h, c, f) ==
    IF c.certPath = "" \/ c.keyPath = ""
    THEN R(h, "cert_path and key_path must be specified", {})
    ELSE IF f = <<"cert-stat", 0>> THEN R(h, "certificate file not found", {})
    ELSE IF f = <<"key-stat", 0>> THEN R(h, "key file not found", {})
    ELSE IF f = <<"cert-write", 0>> THEN R(h, "failed to write certificate", {})
    ELSE IF f = <<"key-write", 0>>
    THEN R([h EXCEPT !.certs = @ \cup {"cert.pem"}],
           "failed to write private key", {"write"})
    ELSE R([h EXCEPT !.certs = @ \cup {"cert.pem", "key.pem"}], "", {"write"})

\* Faulty variant: every flavor without certificates of its own goes to the
\* ACME client.
setupTLSAlwaysACME(h, c, f) ==
    IF c.tlsFlavor \in {"cert", "mail"} THEN setupCustomCerts(h, c, f)
    ELSE setupLetsEncrypt(h, c, f)

setupTLS(h, c, f) ==
    IF c.tlsFlavor \in {"letsencrypt", "mail-letsencrypt"}
    THEN setupLetsEncrypt(h, c, f)
    ELSE IF c.tlsFlavor \in {"cert", "mail"} THEN setupCustomCerts(h, c, f)
    ELSE R(h, "", {})

\* The units that get an override fragment, in the order they are written.
OverrideUnits(c) ==
    << "postfix", "dovecot", "rspamd", "nginx", "redis" >> \o
    (IF c.webmail # "" /\ c.webmail # "none" THEN << "php8.1-fpm" >> ELSE << >>) \o
    (IF c.antivirus THEN << "clamav-daemon", "clamav-freshclam" >> ELSE << >>)

\* The override directory of a unit.
OverrideDir(unit) ==
    CASE unit = "postfix" -> "/etc/systemd/system/postfix.service.d"
      [] unit = "dovecot" -> "/etc/systemd/system/dovecot.service.d"
      [] unit = "rspamd" -> "/etc/systemd/system/rspamd.service.d"
      [] unit = "nginx" -> "/etc/systemd/system/nginx.service.d"
      [] unit = "redis" -> "/etc/systemd/system/redis.service.d"
      [] unit = "php8.1-fpm" -> "/etc/systemd/system/php8.1-fpm.service.d"
      [] unit = "clamav-daemon" -> "/etc/systemd/system/clamav-daemon.service.d"
      [] unit = "clamav-freshclam" ->
             "/etc/systemd/system/clamav-freshclam.service.d"

\* The override directories of the units ul[k..], created in order; the
\* directory of ul[k] is the n-th directory the step creates.
RECURSIVE createOverrideDirsFrom(_, _, _, _, _)
createOverrideDirsFrom(k, n, h, ul, f) ==
    IF k > Len(ul) THEN R(h, "", {})
    ELSE LET rh1 == CreateDirectory(h, OverrideDir(ul[k]), "root", 755, n, f)
             h1 == rh1.h
         IN  Then(rh1, createOverrideDirsFrom(k + 1, n + 1, h1, ul, f))

\* os.WriteFile of the override.conf of the units ul[k..]; the fragment of
\* ul[k] is the n-th fragment the step writes.
RECURSIVE writeOverridesFrom(_, _, _, _, _)
writeOverridesFrom(k, n, h, ul, f) ==
    IF k > Len(ul) THEN R(h, "", {})
    ELSE IF f = <<"override-write", n>> THEN R(h, "failed to write override", {})
    ELSE LET rh1 == R([h EXCEPT !.units = @ \cup {ul[k]}], "", {"write"})
             h1 == rh1.h
         IN  Then(rh1, writeOverridesFrom(k + 1, n + 1, h1, ul, f))

\* systemctl daemon-reload; h.reloads holds, for every reload of the last
\* execution of configureServices, the fragments that were on disk.
daemonReload(h, f) ==
    IF f = <<"daemon-reload", 0>>
    THEN R(h, "failed to reload systemd", {"systemctl"})
    ELSE R([h EXCEPT !.reloads = Append(@, h.units)], "", {"systemctl"})

\* Directories and fragments of a list of units: the directories first.
overridesOf(n, h, ul, f) ==
    LET rh1 == createOverrideDirsFrom(1, n, h, ul, f)
        h1 == rh1.h
    IN  Then(rh1, writeOverridesFrom(1, n, h1, ul, f))

\* Faulty variant: the unit database is reloaded before the fragments of
\* the optional units are written.
configureServicesReloadEarly(h, c, f) ==
    LET h0 == [h EXCEPT !.reloads = << >>]
        core == SubSeq(OverrideUnits(c), 1, 5)
        isPhp(u) == u = "php8.1-fpm"
        isClam(u) == u \in {"clamav-daemon", "clamav-freshclam"}
        php == SelectSeq(OverrideUnits(c), isPhp)
        clam == SelectSeq(OverrideUnits(c), isClam)
        rh1 == overridesOf(1, h0, core, f)
        h1 == rh1.h
        rh2 == daemonReload(h1, f)
        h2 == rh2.h
        rh3 == overridesOf(6, h2, php, f)
        h3 == rh3.h
        rh4 == overridesOf(6 + Len(php), h3, clam, f)
    IN  Then(rh1, Then(rh2, Then(rh3, rh4)))

\* configureServices: the five core directories and fragments, the php-fpm
\* and the clamav ones when configured, then one daemon-reload.
configureServices(h, c, f) ==
    LET h0 == [h EXCEPT !.reloads = << >>]
        core == SubSeq(OverrideUnits(c), 1, 5)
        isPhp(u) == u = "php8.1-fpm"
        isClam(u) == u \in {"clamav-daemon", "clamav-freshclam"}
        php == SelectSeq(OverrideUnits(c), isPhp)
        clam == SelectSeq(OverrideUnits(c), isClam)
        rh1 == overridesOf(1, h0, core, f)
        h1 == rh1.h
        rh2 == overridesOf(6, h1, php, f)
        h2 == rh2.h
        rh3 == overridesOf(6 + Len(php), h2, clam, f)
        h3 == rh3.h
        rh4 == daemonReload(h3, f)
    IN  Then(rh1, Then(rh2, Then(rh3, rh4)))

\* Faulty variant: the optional services are enabled and started before the
\* services they depend on.
StartListOptionalFirst(c) ==
    (IF c.webmail # "" /\ c.webmail # "none" THEN << "php8.1-fpm" >> ELSE << >>) \o
    (IF c.antivirus THEN << "clamav-freshclam", "clamav-daemon" >> ELSE << >>) \o
    << "redis", "rspamd", "postfix", "dovecot", "nginx" >>

\* The services startServices enables and starts, in order.
StartList(c) ==
    << "redis", "rspamd", "postfix", "dovecot", "nginx" >> \o
    (IF c.webmail # "" /\ c.webmail # "none" THEN << "php8.1-fpm" >> ELSE << >>) \o
    (IF c.antivirus THEN << "clamav-freshclam", "clamav-daemon" >> ELSE << >>)

restartServices == << "postfix", "dovecot", "rspamd", "nginx" >>

\* One systemctl call of startServices: the verb, the service and whether the
\* call returned nil.  h.calls is the sequence of the calls of the last
\* execution of startServices.
Called(h, verb, service, ok) ==
    [h EXCEPT !.calls = Append(@, <<verb, service, ok>>)]

\* Faulty variant: the first service that fails ends the pass.
stopAtFailure(k, sl) == Len(sl) + 1

\* `continue` after a failed enable or start: the loop goes on with the
\* next service.
continueAfterFailure(k, sl) == k + 1

\* Enable then start: a failed enable skips the start; both only warn.
RECURSIVE startFrom(_, _, _, _)
startFrom(k, h, sl, f) ==
    IF k > Len(sl) THEN h
    ELSE IF f = <<"enable", k>>
    THEN startFrom(continueAfterFailure(k, sl),
                   Called(h, "enable", sl[k], FALSE), sl, f)
    ELSE LET h1 == [Called(h, "enable", sl[k], TRUE)
                        EXCEPT !.enabled = @ \cup {sl[k]}]
         IN  IF f = <<"start", k>>
             THEN startFrom(continueAfterFailure(k, sl),
                            Called(h1, "start", sl[k], FALSE), sl, f)
             ELSE startFrom(k + 1,
                            [Called(h1, "start", sl[k], TRUE)
                                 EXCEPT !.active = @ \cup {sl[k]}], sl, f)

RECURSIVE restartFrom(_, _, _)
restartFrom(k, h, f) ==
    IF k > Len(restartServices) THEN h
    ELSE IF f = <<"restart", k>>
    THEN restartFrom(k + 1,
                     [Called(h, "restart", restartServices[k], FALSE)
                          EXCEPT !.active = @ \ {restartServices[k]}], f)
    ELSE restartFrom(k + 1,
                     [Called(h, "restart", restartServices[k], TRUE)
                          EXCEPT !.active = @ \cup {restartServices[k]}], f)

\* The ports a running service listens on with the shipped templates.
ServicePorts(service) ==
    CASE service = "postfix" -> {25}
      [] service = "dovecot" -> {143, 993}
      [] service = "nginx" -> {80, 443}
      [] OTHER -> {}

\* The ports bound once the services of h are up; under fault
\* <<"no-bind", p>> the service of port p runs without binding it.
Bound(h, f) ==
    [h EXCEPT !.listening =
        UNION { ServicePorts(s) : s \in h.active }
            \ (IF f[1] = "no-bind" THEN {f[2]} ELSE {})]

startServices(h, c, f) ==
    LET h0 == [h EXCEPT !.calls = << >>]
        h1 == startFrom(1, h0, StartList(c), f)
        h2 == restartFrom(1, h1, f)
    IN  R(Bound(h2, f), "", {"systemctl"})

createAdminUser(h, c, f) ==
    IF f = <<"admin-script", 0>> THEN R(h, "failed to create admin script", {})
    ELSE R([h EXCEPT !.scripts = @ \cup {"mailstack-create-admin"}], "", {"write"})

\* The services healthCheck queries.
HealthServices(c) ==
    << "redis", "rspamd", "postfix", "dovecot", "nginx" >> \o
    (IF c.webmail # "" /\ c.webmail # "none" THEN << "php8.1-fpm" >> ELSE << >>) \o
    (IF c.antivirus THEN << "clamav-daemon" >> ELSE << >>)

\* The ports healthCheck verifies.
HealthPorts(c) ==
    {25, 143, 993, 80} \cup
    (IF c.tlsFlavor # "" /\ c.tlsFlavor # "notls" THEN {443} ELSE {})

\* The decimal digits of n, as fmt prints them with %d.
RECURSIVE Digits(_)
Digits(n) ==
    LET d == << "0", "1", "2", "3", "4", "5", "6", "7", "8", "9" >>
    IN  IF n < 10 THEN << d[n + 1] >>
        ELSE Digits(n \div 10) \o << d[(n % 10) + 1] >>

\* fmt.Sprintf(":%d", port)
PortStr(port) == << ":" >> \o Digits(port)

\* The output of "ss -tln" as a sequence of characters: one ":<port> " entry
\* for each listening port of ports, in the order of ports.
RECURSIVE SsLines(_, _)
SsLines(h, ports) ==
    IF ports = << >> THEN << >>
    ELSE (IF Head(ports) \in h.listening
          THEN PortStr(Head(ports)) \o << " " >> ELSE << >>)
         \o SsLines(h, Tail(ports))

SsOutput(h, c) == SsLines(h, << 25, 80, 143, 443, 993 >>)

\* The listening test of healthCheck: it ranges over the bytes of the output
\* and compares each single byte with portStr[1:].
PortListening(output, portStr) ==
    \E i \in 1..Len(output) : <<output[i]>> = Tail(portStr)

\* healthCheck: a service is reported inactive when it is not active or when
\* it died since it was started (fault <<"inactive", k>>); a port is checked
\* only when ss runs.
\* Faulty variant: a failed health check removes the generated configuration
\* and map files before it returns.
healthFailedCleanup(h) ==
    R([h EXCEPT !.conf = {}, !.maps = {}, !.compiled = {}],
      "health check failed", {"remove"})

\* The failure return of healthCheck: the error is returned and nothing on
\* the host is touched.
healthFailed(h) == R(h, "health check failed", {})

healthCheck(h, c, f) ==
    LET services == HealthServices(c)
        servicesHealthy ==
            \A k \in 1..Len(services) :
                services[k] \in h.active /\ f # <<"inactive", k>>
        portsHealthy ==
            \A p \in HealthPorts(c) :
                ~h.ssWorks \/ PortListening(SsOutput(h, c), PortStr(p))
    IN  IF servicesHealthy /\ portsHealthy THEN R(h, "", {})
        ELSE healthFailed(h)

\* Installer.Update: detectOS, package-list update, install of all packages.
Update(h, c, f) ==
    LET rh1 == detectOS(h, c, f)
        h1 == rh1.h
    IN  Then(rh1,
         LET allPkgs == GetRequiredPackages(h1.os) \o
                        GetOptionalPackages(h1.os, c.antivirus, c.svcWebmail)
         IN  IF f = <<"pkg-update", 0>>
             THEN R(h1, "failed to update package lists", {"pkg-update"})
             ELSE IF f = <<"pkg-required", 0>>
             THEN R(h1, "failed to upgrade packages", {"pkg-update", "pkg-install"})
             ELSE R([h1 EXCEPT !.pkgs = @ \cup Range(allPkgs)], "",
                    {"pkg-update", "pkg-install"}))

\* The ordered step list of Install: the name reported and the function run.
\* Faulty variant: the directories are created before the system users.
stepsDirectoriesFirst ==
    << [name |-> "Detecting OS", fn |-> "detectOS"],
       [name |-> "Checking prerequisites", fn |-> "checkPrerequisites"],
       [name |-> "Installing packages", fn |-> "installPackages"],
       [name |-> "Creating directories", fn |-> "createDirectories"],
       [name |-> "Creating system users", fn |-> "createSystemUsers"],
       [name |-> "Generating configuration files", fn |-> "generateConfigs"],
       [name |-> "Initializing database", fn |-> "initDatabase"],
       [name |-> "Generating DKIM keys", fn |-> "generateDKIM"],
       [name |-> "Setting up TLS certificates", fn |-> "setupTLS"],
       [name |-> "Configuring services", fn |-> "configureServices"],
       [name |-> "Starting services", fn |-> "startServices"],
       [name |-> "Creating admin user", fn |-> "createAdminUser"],
       [name |-> "Running health checks", fn |-> "healthCheck"] >>

\* The steps array of Install: the printed name and the step function.
steps ==
    << [name |-> "Detecting OS", fn |-> "detectOS"],
       [name |-> "Checking prerequisites", fn |-> "checkPrerequisites"],
       [name |-> "Installing packages", fn |-> "installPackages"],
       [name |-> "Creating system users", fn |-> "createSystemUsers"],
       [name |-> "Creating directories", fn |-> "createDirectories"],
       [name |-> "Generating configuration files", fn |-> "generateConfigs"],
       [name |-> "Initializing database", fn |-> "initDatabase"],
       [name |-> "Generating DKIM keys", fn |-> "generateDKIM"],
       [name |-> "Setting up TLS certificates", fn |-> "setupTLS"],
       [name |-> "Configuring services", fn |-> "configureServices"],
       [name |-> "Starting services", fn |-> "startServices"],
       [name |-> "Creating admin user", fn |-> "createAdminUser"],
       [name |-> "Running health checks", fn |-> "healthCheck"] >>

\* step.fn(): the step function named fn, run on host h with Config c.
StepFn(fn, h, c, f) ==
    CASE fn = "detectOS" -> detectOS(h, c, f)
      [] fn = "checkPrerequisites" -> checkPrerequisites(h, c, f)
      [] fn = "installPackages" -> installPackages(h, c, f)
      [] fn = "createSystemUsers" -> createSystemUsers(h, c, f)
      [] fn = "createDirectories" -> createDirectories(h, c, f)
      [] fn = "generateConfigs" -> generateConfigs(h, c, f)
      [] fn = "initDatabase" -> initDatabase(h, c, f)
      [] fn = "generateDKIM" -> generateDKIM(h, c, f)
      [] fn = "setupTLS" -> setupTLS(h, c, f)
      [] fn = "configureServices" -> configureServices(h, c, f)
      [] fn = "startServices" -> startServices(h, c, f)
      [] fn = "createAdminUser" -> createAdminUser(h, c, f)
      [] fn = "healthCheck" -> healthCheck(h, c, f)

(***************************************************************************)
(* External failures                                                       *)
(***************************************************************************)

\* The iterations of a loop of n calls at which a failure is injected: the
\* first and the last.
Ends(n) == { k \in {1, n} : k >= 1 }

\* The external calls of step function fn that are made on host h and can
\* fail: the failing call and, for calls made in a loop, the iteration.
FaultChoices(fn, h, c) ==
    CASE fn = "installPackages" ->
            { <<"pkg-update", 0>> }
            \cup (IF Len(NotInstalled(h, GetRequiredPackages(h.os))) > 0
                  THEN { <<"pkg-required", 0>> } ELSE {})
            \cup (IF Len(NotInstalled(h, GetOptionalPackages(h.os, c.antivirus,
                                                            c.svcWebmail))) > 0
                  THEN { <<"pkg-optional", 0>> } ELSE {})
      [] fn = "createSystemUsers" ->
            { <<"useradd", k>> : k \in { j \in 1..Len(SystemUsers) :
                                            SystemUsers[j] \notin h.users } }
            \cup (IF "mail" \in h.groups THEN {} ELSE { <<"groupadd", 0>> })
      [] fn = "createDirectories" ->
            { <<p, k>> : p \in {"mkdir", "chmod"}, k \in Ends(Len(Directories(c))) }
      [] fn = "generateConfigs" ->
            { <<"render", k>> : k \in 1..4 }
            \cup { <<p, k>> : p \in {"map-write", "postmap"},
                              k \in { j \in Ends(Len(EmptyMaps(c))) :
                                        EmptyMaps(c)[j] \notin h.maps } }
            \cup (IF h.dhparam THEN {} ELSE { <<"dhparam", 0>> })
            \cup (IF c.webmail # "none" /\ c.svcWebmail
                  THEN { <<"render", 5>>, <<"render", 6>> }
                       \cup (IF "webmail.conf" \in h.links THEN {}
                             ELSE { <<"symlink", 0>> })
                  ELSE {})
      [] fn = "initDatabase" ->
            IF c.dbType \in {"mysql", "mariadb", "postgresql", "postgres"} THEN {}
            ELSE { <<p, 0>> : p \in {"schema-write", "sqlite3", "db-chmod",
                                     "sqlite3-insert"} }
      [] fn = "generateDKIM" ->
            IF h.dkimKey # 0 THEN {}
            ELSE { <<p, 0>> : p \in {"genrsa", "dkim-chmod", "pubout", "dns-write"} }
                 \cup { <<"genrsa", 1>> }
      [] fn = "setupTLS" ->
            IF c.tlsFlavor \in {"letsencrypt", "mail-letsencrypt"}
            THEN IF "certbot" \in h.pkgs /\ c.tlsEmail # ""
                 THEN { <<p, 0>> : p \in {"certbot", "symlink-cert", "symlink-key",
                                          "hook-write"} }
                 ELSE {}
            ELSE IF c.tlsFlavor \in {"cert", "mail"}
            THEN IF c.certPath # "" /\ c.keyPath # ""
                 THEN { <<p, 0>> : p \in {"cert-stat", "key-stat", "cert-write",
                                          "key-write"} }
                 ELSE {}
            ELSE {}
      [] fn = "configureServices" ->
            { <<"override-write", k>> : k \in Ends(Len(OverrideUnits(c))) }
            \cup { <<"mkdir", k>> : k \in Ends(Len(OverrideUnits(c))) }
            \cup { <<"daemon-reload", 0>> }
      [] fn = "startServices" ->
            { <<p, k>> : p \in {"enable", "start"}, k \in Ends(Len(StartList(c))) }
            \cup { <<"restart", k>> : k \in Ends(Len(restartServices)) }
            \cup { <<"no-bind", 993>> }
      [] fn = "createAdminUser" -> { <<"admin-script", 0>> }
      [] fn = "healthCheck" ->
            { <<"inactive", k>> : k \in { j \in Ends(Len(HealthServices(c))) :
                                             HealthServices(c)[j] \in h.active } }
      [] OTHER -> {}

\* The external calls of Installer.Update that can fail.
UpdateFaultChoices(h, c) ==
    IF detectOS(h, c, NoFault).err # "" THEN {}
    ELSE { <<"pkg-update", 0>>, <<"pkg-required", 0>> }

(***************************************************************************)
(* package cli: the commands                                               *)
(***************************************************************************)

NoErr == << >>

\* What every command resets when it starts.
FreshRun ==
    /\ idx' = 0
    /\ started' = << >>
    /\ installErr' = NoErr
    /\ failedFn' = ""
    /\ muts' = {}
    /\ runFaults' = {}

\* installCmd up to the call of Install: the euid check, Load, Validate.
InstallCmd ==
    /\ pc = "idle"
    /\ runs < MaxRuns
    /\ cmd' = "install"
    /\ FreshRun
    /\ UNCHANGED <<file, host, faults>>
    /\ UNCHANGED besidesInstall
    /\ IF ~host.root
       THEN /\ cmdErr' = <<"installation must be run as root">>
            /\ runs' = runs + 1
            /\ UNCHANGED <<pc, cfg, loads>>
       ELSE IF LoadErr(file) # ""
       THEN /\ cmdErr' = <<"failed to load config", LoadErr(file)>>
            /\ runs' = runs + 1
            /\ UNCHANGED <<pc, cfg, loads>>
       ELSE \E c \in Load(file) :
            /\ cfg' = c
            /\ loads' = Append(loads, c)
            /\ IF Validate(c) # ""
               THEN /\ cmdErr' = <<"invalid configuration", Validate(c)>>
                    /\ runs' = runs + 1
                    /\ pc' = pc
               ELSE /\ cmdErr' = NoErr
                    /\ pc' = "install"
                    /\ runs' = runs

\* Faulty variant: the error of a step is never acted upon.
stepNeverFailed(err) == FALSE

\* err != nil, for the error a step function returned
stepFailed(err) == err # ""

\* Faulty variant: the error of the step is returned without the step's name.
wrapUnnamed(name, err) == <<"", err>>

\* fmt.Errorf("%s failed: %w", step.name, err)
wrap(name, err) == <<name, err>>

\* One iteration of the loop of Install: step idx+1 runs to completion.
\* failedFn records the step function that returned an error.
RunStep ==
    /\ pc = "install"
    /\ LET step == steps[idx + 1] IN
       \E f \in {NoFault} \cup FaultChoices(step.fn, host, cfg) :
         /\ f # NoFault => faults < MaxFaults
         /\ LET r == StepFn(step.fn, host, cfg, f) IN
            /\ host' = r.h
            /\ muts' = muts \cup r.m
            /\ started' = Append(started, step.name)
            /\ runFaults' = IF f = NoFault THEN runFaults ELSE runFaults \cup {f}
            /\ faults' = IF f = NoFault THEN faults ELSE faults + 1
            /\ failedFn' = IF r.err # "" THEN step.fn ELSE failedFn
            /\ IF stepFailed(r.err)
               THEN /\ installErr' = wrap(step.name, r.err)
                    /\ pc' = "returned"
                    /\ idx' = idx
               ELSE /\ installErr' = NoErr
                    /\ idx' = idx + 1
                    /\ pc' = IF idx + 1 = Len(steps) THEN "returned" ELSE "install"
    /\ UNCHANGED <<file, cmd, cfg, cmdErr, runs, loads>>
    /\ UNCHANGED besidesInstall

\* installCmd after Install returned: the error is wrapped and reported.
InstallReturn ==
    /\ pc = "returned"
    /\ cmdErr' = IF installErr # NoErr THEN <<"installation failed">> \o installErr
                 ELSE NoErr
    /\ pc' = "idle"
    /\ runs' = runs + 1
    /\ UNCHANGED <<file, host, cmd, cfg, idx, started, installErr, failedFn,
                   muts, runFaults, faults, loads>>
    /\ UNCHANGED besidesInstall

\* updateCmd: Load, then Installer.Update.
UpdateCmd ==
    /\ pc = "idle"
    /\ runs < MaxRuns
    /\ cmd' = "update"
    /\ FreshRun
    /\ runs' = runs + 1
    /\ UNCHANGED <<file, pc>>
    /\ UNCHANGED besidesInstall
    /\ IF LoadErr(file) # ""
       THEN /\ cmdErr' = <<LoadErr(file)>>
            /\ UNCHANGED <<host, cfg, loads, faults>>
       ELSE \E c \in Load(file) :
            \E f \in {NoFault} \cup UpdateFaultChoices(host, c) :
              /\ f # NoFault => faults < MaxFaults
              /\ cfg' = c
              /\ loads' = Append(loads, c)
              /\ LET r == Update(host, c, f) IN
                 /\ host' = r.h
                 /\ cmdErr' = IF r.err # "" THEN <<"update failed", r.err>> ELSE NoErr
              /\ faults' = IF f = NoFault THEN faults ELSE faults + 1

(***************************************************************************)
(* Renderer.RenderToFile, call by call                                     *)
(***************************************************************************)

\* Largest number of blocks a rendered file is written in.
MaxBlocks == 2

\* File contents: sequences of up to MaxBlocks blocks.
Contents ==
    UNION { [1..n -> {"x", "y"}] : n \in 1..MaxBlocks }

\* No file at outputPath.
NoFile == [exists |-> FALSE, data |-> << >>, mode |-> <<0, 0, 0>>]

\* Whether octal digit d has bit b (1, 2 or 4).
HasBit(d, b) == (d \div b) % 2 = 1

\* perm &^ umask, digit by digit.
AndNot(perm, mask) ==
    [ i \in 1..3 |->
        (IF HasBit(perm[i], 4) /\ ~HasBit(mask[i], 4) THEN 4 ELSE 0) +
        (IF HasBit(perm[i], 2) /\ ~HasBit(mask[i], 2) THEN 2 ELSE 0) +
        (IF HasBit(perm[i], 1) /\ ~HasBit(mask[i], 1) THEN 1 ELSE 0) ]

\* The perm argument of os.WriteFile in RenderToFile: 0644.
RenderPerm == <<6, 4, 4>>

\* open(outputPath, O_WRONLY|O_CREATE|O_TRUNC, perm): a new file gets
\* perm &^ umask; an existing file keeps its mode; either way it is empty.
OpenTrunc(d, perm, mask) ==
    IF d.exists THEN [d EXCEPT !.data = << >>]
    ELSE [exists |-> TRUE, data |-> << >>, mode |-> AndNot(perm, mask)]

\* No RenderToFile call is in progress.
WriteIdle ==
    /\ dest = NoFile
    /\ prev = NoFile
    /\ wpc = "idle"
    /\ umask = <<0, 2, 2>>
    /\ content = << >>

\* r.Render(templatePath) returns the bytes.
RenderOk ==
    /\ wpc = "start"
    /\ wpc' = "rendered"
    /\ UNCHANGED <<dest, prev, umask, content>>
    /\ UNCHANGED besidesWrite

\* r.Render(templatePath) fails: RenderToFile returns the error.
RenderFail ==
    /\ wpc = "start"
    /\ wpc' = "failed"
    /\ UNCHANGED <<dest, prev, umask, content>>
    /\ UNCHANGED besidesWrite

\* os.WriteFile opens the file.
WriteOpen ==
    /\ wpc = "rendered"
    /\ dest' = OpenTrunc(dest, RenderPerm, umask)
    /\ wpc' = "writing"
    /\ UNCHANGED <<prev, umask, content>>
    /\ UNCHANGED besidesWrite

\* os.WriteFile cannot open the file: RenderToFile returns the error.
WriteOpenFail ==
    /\ wpc = "rendered"
    /\ wpc' = "failed"
    /\ UNCHANGED <<dest, prev, umask, content>>
    /\ UNCHANGED besidesWrite

\* os.WriteFile writes the next block of the content.
WriteBlock ==
    /\ wpc = "writing"
    /\ Len(dest.data) < Len(content)
    /\ dest' = [dest EXCEPT !.data = Append(@, content[Len(@) + 1])]
    /\ UNCHANGED <<wpc, prev, umask, content>>
    /\ UNCHANGED besidesWrite

\* A write fails (disk full, I/O error): RenderToFile returns the error.
WriteBlockFail ==
    /\ wpc = "writing"
    /\ Len(dest.data) < Len(content)
    /\ wpc' = "failed"
    /\ UNCHANGED <<dest, prev, umask, content>>
    /\ UNCHANGED besidesWrite

\* os.WriteFile closes the file and RenderToFile returns nil.
WriteClose ==
    /\ wpc = "writing"
    /\ Len(dest.data) = Len(content)
    /\ wpc' = "done"
    /\ UNCHANGED <<dest, prev, umask, content>>
    /\ UNCHANGED besidesWrite

\* The process is killed during the call.
Killed ==
    /\ wpc \in {"start", "rendered", "writing"}
    /\ wpc' = "killed"
    /\ UNCHANGED <<dest, prev, umask, content>>
    /\ UNCHANGED besidesWrite

(***************************************************************************)
(* Initial states                                                          *)
(***************************************************************************)

Opt(v) == {"", v}

RequiredFieldFiles ==
    { [BaseFile EXCEPT !.domain = d, !.hostname = h, !.adminEmail = e,
                       !.adminPassword = p, !.tlsFlavor = t] :
        d \in Opt("example.com"), h \in Opt("mail.example.com"),
        e \in Opt("admin@example.com"), p \in Opt("pw"),
        t \in {"notls", "letsencrypt"} }

DatabaseFiles ==
    { [BaseFile EXCEPT !.dbType = t] : t \in {"", "bogus", "mysql", "postgresql"} }

TLSFiles ==
    { [BaseFile EXCEPT !.tlsFlavor = t, !.tlsEmail = e[1], !.certPath = e[2],
                       !.keyPath = e[2]] :
        t \in {"", "bogus", "letsencrypt", "mail-letsencrypt", "cert", "mail"},
        e \in { <<"", "">>, <<"tls@example.com", "/etc/ssl/mail.pem">> } }

FeatureFiles ==
    { [BaseFile EXCEPT !.webmail = w, !.svcWebmail = s, !.roundcubeKey = FileKey,
                       !.snuffleupagusKey = FileKey] :
        w \in {"none", "roundcube", "snappymail"}, s \in BOOLEAN }
    \cup { [BaseFile EXCEPT !.antivirus = TRUE] }

\* Files that leave the secrets to be generated at load time.
SecretFiles ==
    { [BaseFile EXCEPT !.secretKey = NoKey],
      [BaseFile EXCEPT !.webmail = "roundcube", !.svcWebmail = TRUE,
                       !.snuffleupagusKey = FileKey],
      [BaseFile EXCEPT !.webmail = "snappymail", !.svcWebmail = TRUE] }

\* Files that ask for Let's Encrypt certificates, with and without webmail,
\* under a hostname that is or is not the webmail name.
WebmailTLSFiles ==
    { [BaseFile EXCEPT !.tlsFlavor = "letsencrypt",
                       !.tlsEmail = "tls@example.com", !.hostname = h,
                       !.webmail = w, !.svcWebmail = (w # "none"),
                       !.roundcubeKey = FileKey, !.snuffleupagusKey = FileKey] :
        h \in {"mail.example.com", "webmail.example.com"},
        w \in {"none", "roundcube"} }

\* Files that give the list of hostnames themselves, one of them without
\* the hostname.
HostnameFiles ==
    { [BaseFile EXCEPT !.hostnames = << "mail.example.com", "mx.example.com" >>],
      [BaseFile EXCEPT !.hostname = "", !.hostnames = << "mx.example.com" >>] }

\* Files that place the SQLite database: by database.path, by database.dsn,
\* by paths.data, or by none of them.
DatabasePathFiles ==
    { [BaseFile EXCEPT !.dbPath = p, !.dbDSN = d, !.dataPath = dp] :
        p \in {"", "/srv/mail.db"},
        d \in { << >>, << "sqlite:", "/srv/other.db" >> },
        dp \in {"", "/srv/data"} }

\* A file that puts the data directory where the queue directory is.
SharedPathFiles ==
    { [BaseFile EXCEPT !.dataPath = "/var/lib/mailstack/queue"] }

UnreadableFiles ==
    { [BaseFile EXCEPT !.kind = k] : k \in {"missing", "malformed"} }

ConfigFiles ==
    RequiredFieldFiles \cup DatabaseFiles \cup TLSFiles \cup FeatureFiles
        \cup SecretFiles \cup WebmailTLSFiles \cup HostnameFiles
        \cup DatabasePathFiles \cup SharedPathFiles
        \cup UnreadableFiles

\* Hosts: a bare machine, machines that fail the first two steps, and a
\* machine with the required packages already present, a queue directory
\* of root's already made and no ss tool.
Hosts ==
    { BareHost,
      [BareHost EXCEPT !.os = "unknown"], [BareHost EXCEPT !.os = "none"],
      [BareHost EXCEPT !.root = FALSE], [BareHost EXCEPT !.systemd = FALSE],
      [BareHost EXCEPT !.ssWorks = FALSE,
                       !.pkgs = Range(GetRequiredPackages("debian")),
                       !.dirs = {<<"/var/lib/mailstack/queue", "root", 700>>}] }

\* No command has run yet on one of the machines hosts, with one of the
\* configuration files files.
InstallStart(files, hosts) ==
    /\ file \in files
    /\ host \in hosts
    /\ pc = "idle"
    /\ cmd = "none"
    /\ cfg = BaseFile
    /\ cmdErr = NoErr
    /\ idx = 0
    /\ started = << >>
    /\ installErr = NoErr
    /\ failedFn = ""
    /\ muts = {}
    /\ runFaults = {}
    /\ faults = 0
    /\ runs = 0
    /\ loads = << >>

(***************************************************************************)
(* Renderer.Render, call after call on one Renderer                        *)
(***************************************************************************)

\* Largest number of Render calls made on a Renderer.
MaxRenders == 3

\* Templates of the embedded file system, by the group they belong to.
TemplateIDs == {"postfix", "dovecot", "nginx"}

\* NewRenderer(cfg): the Renderer keeps the Config.
NewRenderer(c) == [config |-> c]

\* Faulty variant: executing a template blanks the domain in the Config of
\* the Renderer.
RenderCallStateful(r, templatePath) ==
    [ r |-> [r EXCEPT !.config.domain = ""],
      out |-> Render(templatePath, r.config) ]

\* r.Render(templatePath): the template is read from the embedded file
\* system, parsed and executed on getTemplateData(); the Renderer is left
\* as it was.
RenderCall(r, templatePath) ==
    [ r |-> r, out |-> Render(templatePath, r.config) ]

\* One call of Render on the Renderer input; results records the template,
\* the Config the Renderer held when called and the bytes returned.
RenderTemplate ==
    /\ Len(results) < MaxRenders
    /\ \E t \in TemplateIDs :
         LET call == RenderCall(input, t) IN
           /\ input' = call.r
           /\ results' = Append(results,
                  [template |-> t, config |-> input.config, out |-> call.out])
    /\ UNCHANGED besidesCalls

(***************************************************************************)
(* Config.Save followed by Load                                            *)
(***************************************************************************)

\* c.Save(path) returns nil: the file holds the JSON object of the Config
\* input.
SaveConfig ==
    /\ input # << >>
    /\ results = << >>
    /\ results' = << [kind |-> "saved", data |-> Marshal(input)] >>
    /\ UNCHANGED <<input, besidesCalls>>

\* c.Save(path) fails to write the file.
SaveConfigFail ==
    /\ input # << >>
    /\ results = << >>
    /\ results' = << [kind |-> "failed", data |-> << >>] >>
    /\ UNCHANGED <<input, besidesCalls>>

\* Load(path) of the file Save wrote.
LoadSaved ==
    /\ Len(results) = 1
    /\ results[1].kind = "saved"
    /\ \E c \in Load(Unmarshal(results[1].data)) :
         results' = Append(results, [kind |-> "loaded", data |-> c])
    /\ UNCHANGED <<input, besidesCalls>>

(***************************************************************************)
(* package templates: the function library of the templates                *)
(***************************************************************************)

\* int has IntBits bits; slices given to index have at most MaxLen elements.
IntBits == 3
MaxLen == 2

MinInt == 0 - 2^(IntBits - 1)
MaxInt == 2^(IntBits - 1) - 1
GoInt == MinInt..MaxInt

\* The value of n in two's complement of IntBits bits.
Wrap(n) == ((n - MinInt) % 2^IntBits) + MinInt

Abs(n) == IF n < 0 THEN 0 - n ELSE n

\* a / b of Go for b # 0: the quotient truncated toward zero, wrapped (the
\* one overflow, MinInt / -1, gives MinInt and does not panic).
Quo(a, b) ==
    LET q == Abs(a) \div Abs(b)
    IN  Wrap(IF (a < 0) = (b < 0) THEN q ELSE 0 - q)

\* What a call of a library function gives the template engine: the value
\* returned, or the run-time panic raised instead (panic "" = none).
Returned(fn, out) == [fn |-> fn, out |-> out, panic |-> ""]
Panicked(fn, zero, msg) == [fn |-> fn, out |-> zero, panic |-> msg]

\* Faulty variant: the division without the test of the divisor.
divUnchecked(a, b) ==
    IF b = 0 THEN Panicked("div", 0, "integer divide by zero")
    ELSE Returned("div", Quo(a, b))

\* "div"
div(a, b) ==
    IF b = 0 THEN Returned("div", 0) ELSE Returned("div", Quo(a, b))

\* "index": slice[i] of Go is element i + 1 of the sequence.
index(slice, i) ==
    IF i >= 0 /\ i < Len(slice) THEN Returned("index", slice[i + 1])
    ELSE Returned("index", "")

\* The functions called so far.
CalledFns == { results[k].fn : k \in 1..Len(results) }

\* A template calls div on the integers of input.
CallDiv ==
    /\ "div" \notin CalledFns
    /\ results' = Append(results, div(input.a, input.b))
    /\ UNCHANGED <<input, besidesCalls>>

\* A template calls index on the slice and the integer of input.
CallIndex ==
    /\ "index" \notin CalledFns
    /\ results' = Append(results, index(input.slice, input.i))
    /\ UNCHANGED <<input, besidesCalls>>

(***************************************************************************)
(* package database: the data store                                        *)
(***************************************************************************)

\* Domain names given on the command line: two that differ in case only,
\* another one, and one without a dot.
DomainNames == {"x.com", "X.com", "y.org", "localhost"}

\* Emails given on the command line, as strings.Split(email, "@") returns
\* them: two parts (one address in each domain, a second one in x.com), and
\* malformed ones with one part and three parts.
Emails ==
    { <<"a", d>> : d \in DomainNames }
        \cup { <<"b", "x.com">>, <<"a">>, <<"a", "b", "x.com">> }

\* Passwords: one bcrypt accepts and one longer than its 72 bytes.
Passwords == {"secret", "longer-than-72-bytes"}

\* ASCII case folding, as the LIKE operator of SQLite does it.
Fold(name) == IF name = "X.com" THEN "x.com" ELSE name

\* email LIKE '%@' || domain, for a stored email of two parts.
Like(email, domain) == Fold(email[2]) = Fold(domain)

\* Faulty variant: the users of the domain are not counted.
userCountNone(us, domain) == 0

\* SELECT COUNT(*) FROM users WHERE email LIKE '%@' || domain
userCount(us, domain) == Cardinality({ u \in us : Like(u, domain) })

\* The outcome of a call on the store: the tables it leaves and its error.
Stored(ds, us, op, arg, err) ==
    /\ domains' = ds
    /\ users' = us
    /\ dbErr' = [op |-> op, arg |-> arg, err |-> err]
    /\ UNCHANGED <<aliases, besidesStore>>

\* Connect has returned a DB.
Connected == dbErr.op # "none"

\* DB.AddDomain(domain)
AddDomain ==
    /\ Connected
    /\ \E domain \in DomainNames :
         IF domain = "localhost"
         THEN Stored(domains, users, "AddDomain", domain, "invalid domain format")
         ELSE IF domain \in domains
         THEN Stored(domains, users, "AddDomain", domain, "domain already exists")
         ELSE Stored(domains \cup {domain}, users, "AddDomain", domain, "")

\* DB.AddUser(email, password, quota)
AddUser ==
    /\ Connected
    /\ \E email \in Emails, password \in Passwords :
         IF password = "longer-than-72-bytes"
         THEN Stored(domains, users, "AddUser", email, "failed to hash password")
         ELSE IF Len(email) # 2
         THEN Stored(domains, users, "AddUser", email, "invalid email format")
         ELSE IF email[2] \notin domains
         THEN Stored(domains, users, "AddUser", email, "domain does not exist")
         ELSE IF email \in users
         THEN Stored(domains, users, "AddUser", email, "user already exists")
         ELSE Stored(domains, users \cup {email}, "AddUser", email, "")

\* DB.DeleteUser(email, removeMailbox)
DeleteUser ==
    /\ Connected
    /\ \E email \in Emails :
         IF email \notin users
         THEN Stored(domains, users, "DeleteUser", email, "user does not exist")
         ELSE Stored(domains, users \ {email}, "DeleteUser", email, "")

\* DB.DeleteDomain(domain)
DeleteDomain ==
    /\ Connected
    /\ \E domain \in DomainNames :
         IF domain \notin domains
         THEN Stored(domains, users, "DeleteDomain", domain, "domain does not exist")
         ELSE IF userCount(users, domain) > 0
         THEN Stored(domains, users, "DeleteDomain", domain,
                     "cannot delete domain: it has users")
         ELSE Stored(domains \ {domain}, users, "DeleteDomain", domain, "")

\* Destinations given on the command line: one address, none, a list with
\* an empty element after the comma, and a word without @.
Destinations == {"c@y.org", "", "c@y.org, ", "nobody"}

\* AddAlias, the validation of the destination addresses: the error of the
\* first element that is empty after trimming or holds no @ ("" = none).
DestinationErr(destination) ==
    CASE destination = "" -> "empty destination address"
      [] destination = "c@y.org, " -> "empty destination address"
      [] destination = "nobody" -> "invalid destination address"
      [] OTHER -> ""

\* The emails of the rows of table aliases.
AliasEmails(als) == { row[1] : row \in als }

\* Faulty variant: the row is inserted before the destination is validated.
addAliasInsertFirst(ds, us, als, email, destination) ==
    IF Len(email) # 2 THEN [als |-> als, err |-> "invalid email format"]
    ELSE IF email[2] \notin ds THEN [als |-> als, err |-> "domain does not exist"]
    ELSE IF email \in AliasEmails(als)
    THEN [als |-> als, err |-> "alias already exists"]
    ELSE IF email \in us
    THEN [als |-> als, err |-> "cannot create alias: is already a real user"]
    ELSE [als |-> als \cup {<<email, destination>>},
          err |-> DestinationErr(destination)]

\* DB.AddAlias(email, destination) on the tables ds, us, als: the table of
\* aliases it leaves and its error.
addAlias(ds, us, als, email, destination) ==
    IF Len(email) # 2 THEN [als |-> als, err |-> "invalid email format"]
    ELSE IF email[2] \notin ds THEN [als |-> als, err |-> "domain does not exist"]
    ELSE IF email \in AliasEmails(als)
    THEN [als |-> als, err |-> "alias already exists"]
    ELSE IF email \in us
    THEN [als |-> als, err |-> "cannot create alias: is already a real user"]
    ELSE IF DestinationErr(destination) # ""
    THEN [als |-> als, err |-> DestinationErr(destination)]
    ELSE [als |-> als \cup {<<email, destination>>}, err |-> ""]

\* The outcome of a call on table aliases.
StoredAlias(als, op, arg, err) ==
    /\ aliases' = als
    /\ dbErr' = [op |-> op, arg |-> arg, err |-> err]
    /\ UNCHANGED <<domains, users, besidesStore>>

\* DB.AddAlias(email, destination)
AddAlias ==
    /\ Connected
    /\ \E email \in Emails, destination \in Destinations :
         LET r == addAlias(domains, users, aliases, email, destination)
         IN  StoredAlias(r.als, "AddAlias", email, r.err)

\* DB.DeleteAlias(email)
DeleteAlias ==
    /\ Connected
    /\ \E email \in Emails :
         IF email \notin AliasEmails(aliases)
         THEN StoredAlias(aliases, "DeleteAlias", email, "alias does not exist")
         ELSE StoredAlias({ row \in aliases : row[1] # email },
                          "DeleteAlias", email, "")

\* No library call is being examined.
CallIdle == input = << >> /\ results = << >>

\* No data store is being examined.
StoreIdle ==
    /\ domains = {}
    /\ users = {}
    /\ aliases = {}
    /\ dbErr = [op |-> "none", arg |-> "", err |-> ""]

Init == InstallStart(ConfigFiles, Hosts) /\ WriteIdle /\ CallIdle /\ StoreIdle

\* The files RenderToFile may find at outputPath.
DestFiles ==
    {NoFile} \cup
    { [exists |-> TRUE, data |-> d, mode |-> m] :
        d \in Contents, m \in { <<6, 0, 0>>, <<6, 4, 4>>, <<6, 6, 6>> } }

\* One call of RenderToFile, on any destination, under any umask.
WriteInit ==
    /\ InstallStart({BaseFile}, {BareHost})
    /\ dest \in DestFiles
    /\ prev = dest
    /\ wpc = "start"
    /\ umask \in { <<0, 0, 0>>, <<0, 2, 2>>, <<0, 7, 7>> }
    /\ content \in Contents
    /\ CallIdle
    /\ StoreIdle


\* The install command, run up to MaxRuns times on the same host.
Next == InstallCmd \/ RunStep \/ InstallReturn

Spec == Init /\ [][Next]_vars

\* The update command, run up to MaxRuns times on the same host.
UpdateNext == UpdateCmd

UpdateSpec == Init /\ [][UpdateNext]_vars

\* One call of RenderToFile.
WriteNext ==
    \/ RenderOk \/ RenderFail \/ WriteOpen \/ WriteOpenFail
    \/ WriteBlock \/ WriteBlockFail \/ WriteClose \/ Killed

WriteSpec == WriteInit /\ [][WriteNext]_vars

\* The Configs Load returns for the files with all required fields.
LoadedConfigs ==
    UNION { Load(f) : f \in { g \in ConfigFiles : LoadErr(g) = "" } }

\* A Renderer made for any loaded Config, and no call made yet.
RenderInit ==
    /\ InstallStart({BaseFile}, {BareHost})
    /\ WriteIdle
    /\ input \in { NewRenderer(c) : c \in LoadedConfigs }
    /\ results = << >>
    /\ StoreIdle

\* The data store after initSQLiteDatabase: no user, and the default domain
\* of the configuration or, the insert ignored, no domain at all.
StoreInit ==
    /\ InstallStart({BaseFile}, {BareHost})
    /\ WriteIdle
    /\ CallIdle
    /\ domains \in { {}, {"x.com"} }
    /\ users = {}
    /\ aliases = {}
    /\ dbErr = [op |-> "Connect", arg |-> "", err |-> ""]

StoreNext ==
    \/ AddDomain \/ AddUser \/ DeleteUser \/ DeleteDomain
    \/ AddAlias \/ DeleteAlias

StoreSpec == StoreInit /\ [][StoreNext]_vars

\* A Config returned by Load, not saved yet.
SaveInit ==
    /\ InstallStart({BaseFile}, {BareHost})
    /\ WriteIdle
    /\ input \in LoadedConfigs
    /\ results = << >>
    /\ StoreIdle

SaveNext == SaveConfig \/ SaveConfigFail \/ LoadSaved

SaveSpec == SaveInit /\ [][SaveNext]_vars

RenderNext == RenderTemplate

RenderSpec == RenderInit /\ [][RenderNext]_vars

\* The slices of at most n strings.
Slices(n) == UNION { [1..k -> {"a", "b"}] : k \in 0..n }

\* The arguments a template may hand to div and to index, and no call made
\* yet.
FuncInit ==
    /\ InstallStart({BaseFile}, {BareHost})
    /\ WriteIdle
    /\ input \in [ a : GoInt, b : GoInt, slice : Slices(MaxLen),
                    i : (0 - 2)..(MaxLen + 1) ]
    /\ results = << >>
    /\ StoreIdle

FuncNext == CallDiv \/ CallIndex

FuncSpec == FuncInit /\ [][FuncNext]_vars


(***************************************************************************)
(* Properties of the install pipeline                                      *)
(***************************************************************************)

\* The order in which the pipeline is documented to run, by printed name.
InstallOrder ==
    << "Detecting OS", "Checking prerequisites", "Installing packages",
       "Creating system users", "Creating directories",
       "Generating configuration files", "Initializing database",
       "Generating DKIM keys", "Setting up TLS certificates",
       "Configuring services", "Starting services", "Creating admin user",
       "Running health checks" >>

\* The positions of a step name among the steps started in this run.
StartedAt(name) == { i \in 1..Len(started) : started[i] = name }

\* C1: the steps Install has started are always an initial part of the fixed
\* order of thirteen, so each step runs at most once and only after all the
\* earlier ones returned; directories come after users, configuration files
\* after directories, and the start of the services after the configuration
\* files.
C1_StepsInFixedOrder ==
    /\ Len(started) <= Len(InstallOrder)
    /\ started = SubSeq(InstallOrder, 1, Len(started))
    /\ Len(started) \in {idx, idx + 1}
    /\ \A i \in StartedAt("Creating directories") :
         \E j \in StartedAt("Creating system users") : j < i
    /\ \A i \in StartedAt("Generating configuration files") :
         \E j \in StartedAt("Creating directories") : j < i
    /\ \A i \in StartedAt("Starting services") :
         \E j \in StartedAt("Generating configuration files") : j < i

\* An Install that ran all thirteen steps and returned nil.
C1_AllStepsRan ==
    /\ pc = "returned"
    /\ Len(started) = 13
    /\ installErr = NoErr

\* C2: once a step function has returned an error, Install has returned an
\* error and the failing step is the last one started: no later step runs.
C2_FatalErrorStopsInstall ==
    failedFn # "" =>
        /\ pc # "install"
        /\ installErr # NoErr
        /\ Len(started) = idx + 1
        /\ Len(started) <= Len(steps)
        /\ steps[Len(started)].fn = failedFn

\* An Install stopped by the database step, six steps before the end.
C2_StoppedAtDatabase ==
    /\ pc = "idle"
    /\ failedFn = "initDatabase"
    /\ Len(started) = 7
    /\ host.units = {}

\* C3: the error Install returns carries the printed name of the step whose
\* function returned the error, which is the first step to fail and the last
\* one started; installCmd reports that name.
C3_ErrorNamesFailingStep ==
    /\ installErr # NoErr =>
         /\ started # << >>
         /\ installErr[1] = started[Len(started)]
         /\ idx = Len(started) - 1
         /\ \E k \in 1..Len(steps) :
              /\ steps[k].fn = failedFn
              /\ steps[k].name = installErr[1]
              /\ InstallOrder[k] = installErr[1]
    /\ (cmd = "install" /\ Len(cmdErr) = 3) =>
         /\ cmdErr[1] = "installation failed"
         /\ cmdErr[2] = started[Len(started)]

\* installCmd reported a failure of the DKIM step.
C3_DKIMFailureReported ==
    /\ cmd = "install"
    /\ pc = "idle"
    /\ Len(cmdErr) = 3
    /\ cmdErr[2] = "Generating DKIM keys"
    /\ failedFn = "generateDKIM"

\* C4: when the installation of the optional packages fails, the package step
\* returns nil and the pipeline goes on with the next step; when the
\* installation of the required packages fails, the package step fails and
\* Install returns its error.
C4_OptionalPackagesOnlyWarn ==
    /\ <<"pkg-optional", 0>> \in runFaults =>
         /\ failedFn # "installPackages"
         /\ Len(started) >= 3
         /\ Len(started) = 3 => (pc = "install" /\ idx = 3 /\ installErr = NoErr)
    /\ <<"pkg-required", 0>> \in runFaults =>
         /\ failedFn = "installPackages"
         /\ installErr # NoErr
         /\ installErr[1] = "Installing packages"
         /\ Len(started) = 3
         /\ pc # "install"

\* An Install that ran to the end although the optional packages could not
\* be installed.
C4_CompletedWithoutOptional ==
    /\ <<"pkg-optional", 0>> \in runFaults
    /\ Len(started) = 13
    /\ installErr = NoErr
    /\ pc = "returned"

\* C5: without root privilege or without systemd the install command stops
\* at the prerequisites (or before Install, at its own privilege check), and
\* the host is left as it was: nothing was updated, installed, created,
\* written or started.
C5_PrerequisiteFailureMutatesNothing ==
    /\ (~host.root \/ ~host.systemd) => (host \in Hosts /\ muts = {})
    /\ (cmd = "install" /\ ~host.root) =>
         (started = << >> /\ cmdErr = <<"installation must be run as root">>)
    /\ (~host.systemd /\ Len(started) >= 2) =>
         /\ Len(started) = 2
         /\ failedFn = "checkPrerequisites"
         /\ installErr # NoErr
         /\ installErr[1] = "Checking prerequisites"
    /\ \A h \in Hosts :
         (~h.root \/ ~h.systemd) =>
             LET r == checkPrerequisites(h, cfg, NoFault)
             IN  r.err # "" /\ r.h = h /\ r.m = {}

\* installCmd reported the failure of the prerequisites on a host without
\* systemd.
C5_SystemdMissingReported ==
    /\ ~host.systemd
    /\ pc = "idle"
    /\ Len(cmdErr) = 3
    /\ cmdErr[2] = "Checking prerequisites"


(***************************************************************************)
(* Properties of the configuration                                         *)
(***************************************************************************)

\* What a validated Configuration is documented to satisfy.
ValidConfiguration(c) ==
    /\ c.domain # ""
    /\ c.hostname # ""
    /\ c.adminEmail # ""
    /\ c.adminPassword # ""
    /\ c.dbType \in {"sqlite", "postgresql", "mysql"}
    /\ c.tlsFlavor \in {"letsencrypt", "cert", "mail-letsencrypt", "mail", "notls"}
    /\ ~(c.tlsFlavor = "letsencrypt" /\ c.tlsEmail = "")

\* C6: in the install command a pipeline step runs only on a configuration
\* that was loaded and passed validation; when validation fails, as for the
\* flavor letsencrypt without a TLS email, the command ends with the
\* configuration error before the first step and the host is untouched.
C6_NoStepBeforeValidation ==
    /\ (started # << >> \/ pc \in {"install", "returned"}) =>
         /\ cmd = "install"
         /\ LoadErr(file) = ""
         /\ Len(loads) > 0
         /\ cfg = loads[Len(loads)]
         /\ ValidConfiguration(cfg)
    /\ (cmd = "install" /\ Len(loads) > 0 /\ ~ValidConfiguration(cfg)) =>
         /\ started = << >>
         /\ pc = "idle"
         /\ Len(cmdErr) = 2
         /\ cmdErr[1] = "invalid configuration"
         /\ host \in Hosts

\* installCmd rejected the flavor letsencrypt without a TLS email.
C6_LetsencryptWithoutEmailRejected ==
    /\ cmd = "install"
    /\ cfg.tlsFlavor = "letsencrypt"
    /\ cfg.tlsEmail = ""
    /\ cmdErr = <<"invalid configuration", "TLS email is required for Let's Encrypt">>
    /\ started = << >>

\* C7: every Configuration the update command obtained from Load is a
\* validated one.
C7_UpdateActsOnValidatedConfig ==
    (cmd = "update" /\ Len(loads) > 0) => ValidConfiguration(loads[Len(loads)])

\* The required fields in the order Validate checks them.
RequiredFields == << "domain", "hostname", "adminEmail", "adminPassword" >>

\* The error that names a required field.
FieldError(field) ==
    CASE field = "domain" -> "domain is required"
      [] field = "hostname" -> "hostname is required"
      [] field = "adminEmail" -> "admin email is required"
      [] field = "adminPassword" -> "admin password is required"

\* The positions in RequiredFields of the fields c lacks.
Missing(c) == { k \in 1..Len(RequiredFields) : c[RequiredFields[k]] = "" }

\* The install command has loaded a configuration and validated it.
ValidationRan == cmd = "install" /\ host.root /\ Len(loads) > 0

C9_DKIMKeyNeverRotated ==
    [][ /\ host.dkimKey # 0 =>
             (host'.dkimKey = host.dkimKey /\ host'.keyGen = host.keyGen)
        /\ (pc = "install" /\ idx = 7 /\ host.dkimKey # 0) =>
             (idx' = 8 /\ failedFn' = "" /\ "genrsa" \notin muts')
      ]_vars

\* A second Install went past the DKIM step with the key of the first.
C9_SecondRunKeptKey ==
    /\ runs = 1
    /\ pc = "install"
    /\ idx >= 8
    /\ host.dkimKey = 1
    /\ host.keyGen = 1
    /\ "genrsa" \notin muts

\* C10: all loads of the unchanged configuration file yield the same
\* SecretKey, RoundcubeKey and SnuffleupagusKey.
C10_SecretsSameAcrossRuns ==
    \A i, j \in 1..Len(loads) :
        /\ loads[i].secretKey = loads[j].secretKey
        /\ loads[i].roundcubeKey = loads[j].roundcubeKey
        /\ loads[i].snuffleupagusKey = loads[j].snuffleupagusKey

(***************************************************************************)
(* Properties of RenderToFile                                              *)
(***************************************************************************)

\* C11: at every point of a RenderToFile call, also after a kill or a failed
\* write, the destination is the file found when the call started or a file
\* holding the rendered bytes in full.
C11_DestinationNeverPartial ==
    wpc # "idle" => (dest = prev \/ (dest.exists /\ dest.data = content))

\* C12: after RenderToFile returned nil the destination has mode 0644,
\* whatever the umask and the mode of the file found.
C12_ModeIsPerm ==
    wpc = "done" => (dest.exists /\ dest.mode = <<6, 4, 4>>)


(***************************************************************************)
(* Properties of the health check                                          *)
(***************************************************************************)

\* Every service the health check queries is active on the host.
AllServicesActive ==
    \A k \in 1..Len(HealthServices(cfg)) : HealthServices(cfg)[k] \in host.active

\* Every port the health check requires is listening on the host.
AllPortsListening == HealthPorts(cfg) \subseteq host.listening

\* Install has run the health check and returned.
HealthCheckRan == cmd = "install" /\ pc = "returned" /\ Len(started) = 13

\* C13: when every queried service is active and every required port is
\* listening, and no service died meanwhile, the health check returns nil
\* and Install returns nil after step 13.
C13_HealthyHostPasses ==
    (HealthCheckRan /\ AllServicesActive /\ AllPortsListening /\ runFaults = {})
        => installErr = NoErr

\* C14: when a queried service is not active or a required port is not
\* listening, the health check fails and Install returns an error.
C14_UnhealthyHostFails ==
    (HealthCheckRan /\ (~AllServicesActive \/ ~AllPortsListening))
        => installErr # NoErr


(***************************************************************************)
(* Properties of the steps after one of them failed                        *)
(***************************************************************************)

\* What the steps that returned nil in the current run have produced: the
\* system users and the mail group (step 4), the directories with their
\* owner and mode (step 5), the rendered configuration files and the map
\* files (step 6), the database (step 7), the DKIM key (step 8).
UsersProduced ==
    /\ Range(SystemUsers) \subseteq host.users
    /\ "mail" \in host.groups

DirectoriesProduced ==
    \A k \in 1..Len(Directories(cfg)) :
        DirAt(host.dirs, Directories(cfg)[k][1]) # {}

ConfigsProduced ==
    /\ \A g \in {"postfix", "dovecot", "rspamd", "nginx"} :
           Render(g, cfg) \in host.conf
    /\ Range(EmptyMaps(cfg)) \subseteq host.maps
    /\ host.dhparam

DatabaseProduced ==
    \A part \in {"schema.sql", "schema", cfg.domain} :
        <<InstallerDBPath(cfg), part>> \in host.db

KeyProduced == host.dkimKey # 0

InstallRunning == cmd = "install" /\ pc \in {"install", "returned"}

\* C15: a failing step never undoes earlier steps: in every state of a run of
\* Install, the state in which Install returns an error included, the users,
\* directories, configuration files, map files, database and key produced by
\* the steps that returned nil are present with the content they were given.
C15_FailureKeepsEarlierWork ==
    InstallRunning =>
        /\ idx >= 4 => UsersProduced
        /\ idx >= 5 => DirectoriesProduced
        /\ idx >= 6 => ConfigsProduced
        /\ idx >= 7 => DatabaseProduced
        /\ idx >= 8 => KeyProduced

\* Install returned the error of the health check and the work of the twelve
\* steps before it is on the host.
C15_HealthFailedWorkKept ==
    /\ cmd = "install" /\ pc = "returned"
    /\ failedFn = "healthCheck" /\ installErr # NoErr
    /\ idx = 12
    /\ UsersProduced /\ DirectoriesProduced /\ ConfigsProduced
    /\ DatabaseProduced /\ KeyProduced


(***************************************************************************)
(* Properties of the database step                                         *)
(***************************************************************************)

\* C16: with database type mysql or postgresql the error of Initialize
\* database does not abort the run: a run of Install that reached step 7
\* returns only after steps 8 to 13 have been executed.
C16_UnsupportedBackendNotFatal ==
    ( /\ cmd = "install" /\ pc = "returned"
      /\ cfg.dbType \in {"mysql", "mariadb", "postgresql", "postgres"}
      /\ Len(started) >= 7 )
        => Len(started) = 13


(***************************************************************************)
(* Properties of Start services                                            *)
(***************************************************************************)

\* startServices has run in the current run of Install: host.calls holds
\* its systemctl calls.
StartServicesRan ==
    cmd = "install" /\ pc \in {"install", "returned"} /\ Len(started) >= 11

\* The services for which a call of the given verb is in host.calls.
Attempted(verb) ==
    { host.calls[i][2] : i \in { j \in 1..Len(host.calls) : host.calls[j][1] = verb } }

\* The services for which a call of the given verb returned nil.
Succeeded(verb) ==
    { host.calls[i][2] :
        i \in { j \in 1..Len(host.calls) :
                  host.calls[j][1] = verb /\ host.calls[j][3] } }

\* C17 as stated: every service in the start list is given a start attempt,
\* whatever happened to the services before it, and the step returns nil.
C17_EveryServiceStartAttempted ==
    StartServicesRan =>
        /\ Range(StartList(cfg)) \subseteq Attempted("start")
        /\ failedFn # "startServices"

\* C17 amended: every service in the start list is given an enable attempt
\* and, when its own enable returned nil, a start attempt, whatever happened
\* to the services before it; the step returns nil and the run goes on with
\* step 12.
C17_FailureDoesNotBlockOthers ==
    StartServicesRan =>
        /\ Range(StartList(cfg)) \subseteq Attempted("enable")
        /\ Succeeded("enable") \subseteq Attempted("start")
        /\ Attempted("start") \subseteq Succeeded("enable")
        /\ failedFn # "startServices"
        /\ idx >= 11

\* The start of redis, the first service, failed and the last service of
\* the list was started all the same.
C17_RedisFailedNginxStarted ==
    /\ StartServicesRan
    /\ <<"start", "redis", FALSE>> \in Range(host.calls)
    /\ <<"start", "nginx", TRUE>> \in Range(host.calls)
    /\ Len(StartList(cfg)) > 5
    /\ StartList(cfg)[Len(StartList(cfg))] \in Succeeded("start")


\* The calls of the initial pass (enable, start) and of the restart pass, in
\* the order they were made.
InitialPass ==
    LET isInitial(e) == e[1] \in {"enable", "start"}
    IN  SelectSeq(host.calls, isInitial)

RestartPass ==
    LET isRestart(e) == e[1] = "restart"
    IN  SelectSeq(host.calls, isRestart)

\* The place of a service in the dependency order: the cache, the core
\* daemons, the optional services.
DependencyRank(service) ==
    CASE service = "redis" -> 1
      [] service \in {"rspamd", "postfix", "dovecot", "nginx"} -> 2
      [] OTHER -> 3

\* C18: the services are attempted in dependency order (redis before
\* rspamd, postfix, dovecot and nginx, the optional services last); the
\* restart pass begins only after the whole initial pass, and it restarts
\* each of postfix, dovecot, rspamd and nginx whatever the outcome of its
\* enable and start.
C18_DependencyOrderThenRestart ==
    StartServicesRan =>
        /\ \A i, j \in 1..Len(InitialPass) :
               i < j => DependencyRank(InitialPass[i][2])
                            <= DependencyRank(InitialPass[j][2])
        /\ host.calls = InitialPass \o RestartPass
        /\ Len(RestartPass) = 4
        /\ Attempted("restart") = {"postfix", "dovecot", "rspamd", "nginx"}

\* redis was started, nginx could not be enabled in the initial pass and
\* nginx was restarted in the restart pass.
C18_NginxRestartedAfterFailedEnable ==
    /\ StartServicesRan
    /\ <<"enable", "nginx", FALSE>> \in Range(host.calls)
    /\ <<"restart", "nginx", TRUE>> \in Range(host.calls)
    /\ "redis" \in Succeeded("start")


(***************************************************************************)
(* Properties of Configure services                                        *)
(***************************************************************************)

\* configureServices has run in the current run of Install.
ConfigureServicesRan ==
    cmd = "install" /\ pc \in {"install", "returned"} /\ Len(started) >= 10

\* C19: Configure services reloads the unit database exactly once, when
\* every override fragment, those of php-fpm and clamav included, is
\* written; when the step fails on a fragment (or on its directory) it has
\* not reloaded.
C19_ReloadOnceAfterAllFragments ==
    ConfigureServicesRan =>
        /\ Len(host.reloads) <= 1
        /\ \A i \in 1..Len(host.reloads) :
               Range(OverrideUnits(cfg)) \subseteq host.reloads[i]
        /\ failedFn # "configureServices" => Len(host.reloads) = 1
        /\ ( /\ failedFn = "configureServices"
             /\ \E k \in 1..Len(OverrideUnits(cfg)) :
                    <<"override-write", k>> \in runFaults
                        \/ <<"mkdir", k>> \in runFaults )
               => host.reloads = << >>

\* A first run with webmail or antivirus configured got past Configure
\* services: the optional fragments were on disk at the one reload.
C19_ReloadedWithOptionalFragments ==
    /\ ConfigureServicesRan
    /\ failedFn # "configureServices"
    /\ Len(OverrideUnits(cfg)) > 5
    /\ Len(host.reloads) = 1
    /\ runs = 0


(***************************************************************************)
(* Properties of Set up TLS                                                *)
(***************************************************************************)

\* C20: certbot is invoked only with TLS flavor letsencrypt or
\* mail-letsencrypt (host.acme holds the domains of the last certbot call);
\* with flavor notls Set up TLS returns nil, calls no certbot and leaves no
\* certificate file, link or renewal hook.
C20_ACMEOnlyForLetsencrypt ==
    InstallRunning =>
        /\ host.acme # << >>
               => cfg.tlsFlavor \in {"letsencrypt", "mail-letsencrypt"}
        /\ (cfg.tlsFlavor = "notls" /\ Len(started) >= 9)
               => /\ failedFn # "setupTLS"
                  /\ host.acme = << >>
                  /\ host.certs = {}

\* A run with flavor notls got past Set up TLS.
C20_NotlsPastTLS ==
    /\ InstallRunning
    /\ cfg.tlsFlavor = "notls"
    /\ Len(started) >= 9 /\ idx >= 9
    /\ host.certs = {} /\ host.acme = << >>


(***************************************************************************)
(* Properties of the idempotent steps                                      *)
(***************************************************************************)

\* installPackages has run in the current run of Install.
InstallPackagesRan == InstallRunning /\ Len(started) >= 3

\* Every package the configuration asks for.
WantedPackages ==
    Range(GetRequiredPackages(host.os))
        \cup Range(GetOptionalPackages(host.os, cfg.antivirus, cfg.svcWebmail))

\* C21: installPackages hands the package manager only packages that
\* IsInstalled reported missing, and never an empty list; when every
\* required and optional package is installed it calls Install not at all.
C21_OnlyMissingPackagesInstalled ==
    InstallPackagesRan =>
        \A i \in 1..Len(host.installs) :
            /\ host.installs[i][1] # << >>
            /\ Range(host.installs[i][1]) \cap host.installs[i][2] = {}
            /\ ~(WantedPackages \subseteq host.installs[i][2])

\* The second run on a host where the first run installed every package:
\* the step ran and called Install not once.
C21_SecondRunInstalledNothing ==
    /\ InstallPackagesRan
    /\ runs = 1
    /\ WantedPackages # {}
    /\ WantedPackages \subseteq host.pkgs
    /\ host.installs = << >>


\* The users mailu, postfix, dovecot and the group mail exist on the host.
UsersExist ==
    Range(SystemUsers) \subseteq host.users /\ "mail" \in host.groups

GenerateConfigsRan == InstallRunning /\ Len(started) >= 6

\* The positions of the call op on mapFile among the map calls of the step.
MapOpAt(op, mapFile) ==
    { i \in 1..Len(host.mapOps) : host.mapOps[i] = <<op, mapFile>> }

\* C23: a lookup-map file that exists when Generate configuration files
\* runs is neither rewritten nor compiled; a compilation is always that of
\* the file created by the call just before it; and when the step returns
\* nil every map file that was absent has been created and then compiled.
C23_ExistingMapsSkipped ==
    GenerateConfigsRan =>
        /\ \A i \in 1..Len(host.mapOps) :
               /\ host.mapOps[i][2] \notin host.mapsBefore
               /\ host.mapOps[i][1] = "postmap"
                      => /\ i > 1
                         /\ host.mapOps[i - 1] = <<"write", host.mapOps[i][2]>>
        /\ failedFn # "generateConfigs" =>
               \A mapFile \in Range(EmptyMaps(cfg)) \ host.mapsBefore :
                   /\ Cardinality(MapOpAt("write", mapFile)) = 1
                   /\ Cardinality(MapOpAt("postmap", mapFile)) = 1
                   /\ \A i \in MapOpAt("write", mapFile) :
                          i + 1 \in MapOpAt("postmap", mapFile)

\* The second run found every map file of the first run and made no call
\* on any of them.
C23_SecondRunMapsUntouched ==
    /\ GenerateConfigsRan
    /\ runs = 1
    /\ Range(EmptyMaps(cfg)) \subseteq host.mapsBefore
    /\ host.mapOps = << >>


(***************************************************************************)
(* Properties of Render                                                    *)
(***************************************************************************)

SavedAndLoaded == Len(results) = 2 /\ results[2].kind = "loaded"

RenderedGroups == { e[1] : e \in host.conf }

\* Webmail is selected: a variant other than none and the feature flag.
WebmailSelected == cfg.webmail # "none" /\ cfg.svcWebmail

\* C26: the webmail sub-steps run only when selected.  On a host that held
\* no configuration before the first run: with variant none or the feature
\* flag off there is no webmail file and no webmail site link; roundcube
\* files exist only for variant roundcube, snappymail files only for variant
\* snappymail, and never both.
C26_WebmailOnlyWhenSelected ==
    InstallRunning =>
        /\ ~WebmailSelected =>
               /\ RenderedGroups \cap {"webmails", "roundcube", "snappymail"} = {}
               /\ "webmail.conf" \notin host.links
        /\ "roundcube" \in RenderedGroups => cfg.webmail = "roundcube"
        /\ "snappymail" \in RenderedGroups => cfg.webmail = "snappymail"
        /\ ~({"roundcube", "snappymail"} \subseteq RenderedGroups)

\* A run with variant roundcube and the feature flag on generated the
\* common and the roundcube files and the site link, and no snappymail file.
C26_RoundcubeGenerated ==
    /\ GenerateConfigsRan
    /\ failedFn # "generateConfigs"
    /\ cfg.webmail = "roundcube" /\ cfg.svcWebmail
    /\ {"webmails", "roundcube"} \subseteq RenderedGroups
    /\ "snappymail" \notin RenderedGroups
    /\ "webmail.conf" \in host.links


(***************************************************************************)
(* Properties of the data store                                            *)
(***************************************************************************)

\* C27: after any sequence of AddDomain, DeleteDomain, AddUser and
\* DeleteUser the domain of every stored user is an existing domain; an
\* AddUser that returned nil was for an address whose domain exists, and a
\* DeleteDomain that returned nil was for a domain without users.
C27_UserDomainsExist ==
    Connected =>
        /\ \A u \in users : Len(u) = 2 /\ u[2] \in domains
        /\ (dbErr.op = "AddUser" /\ dbErr.err = "")
               => Len(dbErr.arg) = 2 /\ dbErr.arg[2] \in domains
        /\ (dbErr.op = "DeleteDomain" /\ dbErr.err = "")
               => \A u \in users : u[2] # dbErr.arg

\* DeleteDomain was rejected for a domain that has a user, and the user and
\* the domain are still stored.
C27_DeleteDomainRejected ==
    /\ dbErr.op = "DeleteDomain"
    /\ dbErr.err = "cannot delete domain: it has users"
    /\ dbErr.arg \in domains
    /\ \E u \in users : u[2] = dbErr.arg


(***************************************************************************)
(* Properties of the DKIM DNS record                                       *)
(***************************************************************************)

\* C28: the DNS record file written by Generate DKIM keys has exactly the
\* form v=DKIM1; k=rsa; p=<base64 SPKI>, the p= value being the base64 body
\* of the key without PEM header or footer line and without newline.
C28_DNSRecordIsBareBase64 ==
    (InstallRunning /\ host.dkimDns # << >>)
        => host.dkimDns = << "v=DKIM1; k=rsa; p=" >> \o Base64Body


(***************************************************************************)
(* Properties of the Let's Encrypt setup                                   *)
(***************************************************************************)

\* The last certbot call of this machine (host.acme holds its domains,
\* host.acmeOk its outcome, host.certsBefore the certificate directory as the
\* call found it).
CertbotCalled == InstallRunning /\ host.acme # << >>

\* C29: the domains handed to certbot are the hostname, followed by
\* webmail.<domain> exactly when a webmail variant other than none is
\* configured and webmail.<domain> differs from the hostname; the certificate
\* links and the renewal hook change only after certbot succeeded, so a
\* failed certbot call leaves the certificate directory as it found it.
C29_ACMEDomainsAndLinksAfterSuccess ==
    CertbotCalled =>
        /\ Len(host.acme) \in {1, 2}
        /\ host.acme[1] = cfg.hostname
        /\ Len(host.acme) = 2
               <=> /\ cfg.webmail \in {"roundcube", "snappymail"}
                   /\ WebmailDomain(cfg) # cfg.hostname
        /\ Len(host.acme) = 2 => host.acme[2] = WebmailDomain(cfg)
        /\ host.certs # host.certsBefore => host.acmeOk
        /\ ~host.acmeOk => host.certs = host.certsBefore

\* certbot failed on a machine that already had its links and renewal hook,
\* asked for the hostname and the webmail name.
C29_FailedACMEKeptLinks ==
    /\ CertbotCalled
    /\ ~host.acmeOk
    /\ failedFn = "setupTLS"
    /\ host.acme = << "mail.example.com", "webmail.example.com" >>
    /\ {"cert.pem", "key.pem", "renewal-hook"} \subseteq host.certs


(***************************************************************************)
(* Properties of the function library                                      *)
(***************************************************************************)

\* The calls of fn made so far.
CallsOf(fn) == { k \in 1..Len(results) : results[k].fn = fn }

\* q is the quotient of a by b truncated toward zero: the remainder is
\* smaller than b in magnitude and, unless zero, has the sign of a.
TruncatedQuotient(q, a, b) ==
    LET r == a - q * b
    IN  /\ Abs(r) < Abs(b)
        /\ r = 0 \/ (r < 0) = (a < 0)

\* C30: div and index never panic; div a b is 0 when b is 0 and otherwise
\* the quotient a/b truncated toward zero (MinInt / -1, which does not fit,
\* gives MinInt); index is the empty string for an index that is negative or
\* not less than the length of the slice and otherwise the element at that
\* index, counted from 0.
C30_DivAndIndexTotal ==
    /\ \A k \in CallsOf("div") :
         /\ results[k].panic = ""
         /\ input.b = 0 => results[k].out = 0
         /\ (input.b # 0 /\ ~(input.a = MinInt /\ input.b = 0 - 1))
                => TruncatedQuotient(results[k].out, input.a, input.b)
         /\ (input.a = MinInt /\ input.b = 0 - 1) => results[k].out = MinInt
    /\ \A k \in CallsOf("index") :
         /\ results[k].panic = ""
         /\ (input.i < 0 \/ input.i >= Len(input.slice))
                => results[k].out = ""
         /\ (input.i >= 0 /\ input.i < Len(input.slice))
                => results[k].out = input.slice[input.i + 1]

\* A division of a non-zero number by zero and an index equal to the length
\* of a slice of two both returned.
C30_ZeroDivisorAndEndIndexReturned ==
    /\ CallsOf("div") # {} /\ CallsOf("index") # {}
    /\ input.a # 0 /\ input.b = 0
    /\ Len(input.slice) = 2 /\ input.i = 2
    /\ \A k \in 1..Len(results) : results[k].panic = ""


(***************************************************************************)
(* Properties of the hostnames list                                        *)
(***************************************************************************)

\* C31: every Config that Load returned for the configuration file (loads)
\* has a list of hostnames that is not empty: the one-element list of the
\* hostname when the file gives none, the list of the file otherwise.
C31_HostnamesNeverEmpty ==
    \A k \in 1..Len(loads) :
        /\ Len(loads[k].hostnames) >= 1
        /\ Len(file.hostnames) = 0
               => loads[k].hostnames = << loads[k].hostname >>
        /\ Len(file.hostnames) > 0 => loads[k].hostnames = file.hostnames

\* A file without hostnames was loaded and the list became the hostname.
C31_HostnamesDefaulted ==
    /\ Len(loads) >= 1
    /\ file.hostnames = << >>
    /\ loads[1].hostnames = << "mail.example.com" >>


(***************************************************************************)
(* Properties of the webmail-enabled predicate                             *)
(***************************************************************************)

\* php8.1-fpm was treated as a service of this machine: it has an override
\* fragment or systemctl was called for it.
PhpServiceHandled ==
    \/ "php8.1-fpm" \in host.units
    \/ \E k \in 1..Len(host.calls) : host.calls[k][2] = "php8.1-fpm"

\* C32: within an Install run php8.1-fpm is given an override fragment and
\* enabled or started only if Install packages requested the webmail
\* packages and Generate configuration files generated the webmail files,
\* whatever the webmail variant and the services.webmail flag.
C32_OneWebmailPredicate ==
    (InstallRunning /\ PhpServiceHandled)
        => /\ "php8.1-fpm" \in Range(GetOptionalPackages(host.os, cfg.antivirus,
                                                          cfg.svcWebmail))
           /\ "webmails" \in RenderedGroups


(***************************************************************************)
(* Properties of the aliases of the data store                             *)
(***************************************************************************)

\* C33: after any sequence of AddUser, DeleteUser, AddAlias and DeleteAlias
\* no address is both a stored user and a stored alias.
C33_NoAddressUserAndAlias ==
    Connected => users \cap AliasEmails(aliases) = {}

\* C34: after any sequence of AddDomain, DeleteDomain, AddAlias and
\* DeleteAlias the domain of every stored alias is an existing domain.
C34_AliasDomainsExist ==
    Connected => \A email \in AliasEmails(aliases) : email[2] \in domains


(***************************************************************************)
(* Properties of rejected operations of the data store                     *)
(***************************************************************************)

\* C39: a call on the data store that returns an error leaves the tables of
\* users, domains and aliases as they were.
C39_ErrorLeavesTablesUnchanged ==
    [][dbErr'.err # "" => UNCHANGED <<domains, users, aliases>>]_vars

\* AddAlias was rejected for its destination, for an address of an existing
\* domain that is neither a user nor an alias, and no alias is stored.
C39_AliasRejectedForDestination ==
    /\ dbErr.op = "AddAlias"
    /\ dbErr.err = "invalid destination address"
    /\ dbErr.arg[2] \in domains
    /\ dbErr.arg \notin users
    /\ aliases = {}


(***************************************************************************)
(* Properties of re-runs after a step failed part-way                      *)
(***************************************************************************)

\* C35: when Generate DKIM keys has returned nil in a run of Install, the
\* private key (whole, not a partial file), the public key and the DNS
\* record file all exist, also in a run that follows a run which failed
\* within the step.
C35_DKIMSuccessMeansAllFiles ==
    (InstallRunning /\ idx >= 8)
        => /\ host.dkimKey > 0
           /\ host.dkimPub # 0
           /\ host.dkimDns # << >>


\* C36: when Generate configuration files has returned nil in a run of
\* Install, every required lookup-map file exists and has been compiled by
\* postmap, also in a run that follows a run in which postmap failed on the
\* file just created.
C36_MapsSuccessMeansCompiled ==
    (InstallRunning /\ idx >= 6)
        => /\ Range(EmptyMaps(cfg)) \subseteq host.maps
           /\ Range(EmptyMaps(cfg)) \subseteq host.compiled


(***************************************************************************)
(* Properties of the TLS fields of an accepted configuration               *)
(***************************************************************************)

\* The errors of Set up TLS that name a configuration field left out.
MissingFieldErrors ==
    { "TLS email is required for Let's Encrypt",
      "cert_path and key_path must be specified" }

\* C37: in a run of Install, which Validate let through, Set up TLS never
\* fails for a missing configuration field: with flavor letsencrypt or
\* mail-letsencrypt the TLS email is set, with flavor cert or mail the
\* certificate and key paths are set.
C37_ValidatedTLSFieldsPresent ==
    InstallRunning =>
        /\ cfg.tlsFlavor \in {"letsencrypt", "mail-letsencrypt"}
               => cfg.tlsEmail # ""
        /\ cfg.tlsFlavor \in {"cert", "mail"}
               => cfg.certPath # "" /\ cfg.keyPath # ""
        /\ \A k \in 1..Len(installErr) : installErr[k] \notin MissingFieldErrors


(***************************************************************************)
(* Properties of the place of the SQLite database                          *)
(***************************************************************************)

\* C38: with database type sqlite, every file Initialize database has worked
\* on in a run of Install is the file Connect opens under the same loaded
\* configuration, whatever database.path, database.dsn and paths.data are.
C38_InstallerAndConnectSameFile ==
    (InstallRunning /\ cfg.dbType = "sqlite")
        => \A e \in host.db : FileNamed(e[1]) = FileNamed(ConnectPath(cfg))


(***************************************************************************)
(* Properties of the owners of the directories                             *)
(***************************************************************************)

\* The owners Create directories assigns.
DirectoryOwners == { Directories(cfg)[k][2] : k \in 1..Len(Directories(cfg)) }

\* Entry k of the list is the last one for its path.
LastListed(k) ==
    \A j \in (k + 1)..Len(Directories(cfg)) :
        Directories(cfg)[j][1] # Directories(cfg)[k][1]

\* The directory of entry k exists with exactly the owner and the mode of
\* the entry.
AsListed(k) ==
    DirAt(host.dirs, Directories(cfg)[k][1]) = { Directories(cfg)[k] }

\* C40 as stated: once Create system users has returned nil every owner of
\* the list exists and no step fails on the lookup of a user; once Create
\* directories has returned nil each listed directory exists with exactly
\* the listed owner and mode.
C40_DirectoriesAsListed ==
    InstallRunning =>
        /\ idx >= 4 => DirectoryOwners \subseteq host.users
        /\ \A k \in 1..Len(installErr) : installErr[k] # "failed to lookup user"
        /\ idx >= 5 => \A k \in 1..Len(Directories(cfg)) : AsListed(k)

\* C40, amended: the owners exist and no lookup fails, as stated; once
\* Create directories has returned nil each listed path is a directory with
\* exactly the owner and the mode of the last entry that lists it, whether
\* or not it existed before (a path listed twice ends with the later owner).
C40_DirectoriesAsLastListed ==
    InstallRunning =>
        /\ idx >= 4 => DirectoryOwners \subseteq host.users
        /\ \A k \in 1..Len(installErr) : installErr[k] # "failed to lookup user"
        /\ idx >= 5 => \A k \in 1..Len(Directories(cfg)) :
                           LastListed(k) => AsListed(k)

\* Create directories returned nil on the machine whose queue directory was
\* root's with mode 700: the directory is now postfix's with mode 750.
C40_ExistingDirectoryReowned ==
    /\ InstallRunning /\ idx >= 5
    /\ ~host.ssWorks
    /\ <<"/var/lib/mailstack/queue", "postfix", 750>> \in host.dirs
    /\ \A k \in 1..Len(Directories(cfg)) : AsListed(k)

====
